---- MODULE Spec2Model ----
(***************************************************************************)
(* Model of the meshtopo forwarding pipeline.                              *)
(*                                                                         *)
(*   Spec      the CalTopo reporter (src/src/caltopo_reporter.py): the     *)
(*             class-level base URL validation, construction, and          *)
(*             send_position_update with its two concurrent deliveries.    *)
(*   SpecMqtt  the subscriber loop MqttClient.run (src/src/mqtt_client.py) *)
(*   SpecApp   GatewayApp._process_message and its handlers                *)
(*             (src/src/gateway_app.py), after initialize.                 *)
(*             SpecAppFaulty adds writes to the store that raise, and      *)
(*             SpecGroup a configuration with both destinations.           *)
(*   SpecPipe  the same handlers fed from the subscriber's queue in        *)
(*             arrival order; SpecPipeFair adds fairness of the loop.      *)
(*   SpecBoot  GatewayApp.initialize on the state file it finds, and close *)
(*   SpecStop  GatewayApp.start from its tasks to stop(); SpecStopFair     *)
(*             adds fairness of the event loop.                            *)
(*   SpecLegacy  the callback-based MqttClient (src/mqtt_client.py)        *)
(*             through its disconnections and reconnections.               *)
(*   SpecDict  PersistentDict (src/src/persistent_dict.py) on one file     *)
(*   SpecHex   GatewayApp._convert_numeric_to_id on 32-bit node numbers    *)
(*                                                                         *)
(* Text is modelled as a sequence of tokens (one-character strings for     *)
(* identifiers, lexical tokens for URLs), so that strip, the regular       *)
(* expressions and the wildcard match are computed, not assumed.           *)
(***************************************************************************)
EXTENDS Integers, Sequences, FiniteSets, TLC

VARIABLES
    env,          \* [url, patterns]: CALTOPO_URL, CALTOPO_ALLOWED_URL_PATTERNS
    classState,   \* "loading" | "defined" | "ValueError" | "AttributeError"
    BASE_URL,     \* class attribute, <<>> while the class does not exist
    config,       \* [connect_key, group] as Config validated them (<<>>: None)
    clientGiven,  \* a shared httpx client is passed to __init__
    startFailed,  \* the latest start() found no client and created none
    client,       \* self.client: "None" | "shared" | "owned"
    rpc,          \* send_position_update: "new" | "idle" | "gather" | "returned" |
                  \*   "raised" | "cancelling" | "cancelled"
    rresult,      \* the boolean it returned
    task,         \* per destination: [pc, attempt, ident, result]
    calls,        \* per destination: HTTP GETs issued
    lastResp,     \* per destination: the outcome of the latest GET
    all5xx,       \* per destination: every outcome so far was an HTTP 5xx
    got2xx,       \* per destination: some outcome so far was an HTTP 2xx
    log,          \* the records the reporter's logger received
    mpc,          \* MqttClient.run: "off" | "connecting" | "subscribing" |
                  \*   "waiting" | "callback" | "sleeping" | "cancelled" | "returned"
    reconnect_interval,
    waits,        \* the delays slept since the last successful connection
    mclient,      \* MqttClient.client: "None" | "client"
    msg,          \* the message whose callback is running
    delivered,    \* messages handed to message_callback
    received,     \* messages taken from client.messages
    mlog,         \* the latest warning or error MqttClient logged
    cancelledAt,  \* the await at which the task running run() was cancelled
    appConfig,    \* GatewayApp.config: [nodes, allow_unknown_devices]
    node_id_mapping,   \* durable namespace: numeric id -> stable id
    callsign_mapping,  \* durable namespace: stable id -> label
    node_id_cache,     \* GatewayApp._node_id_cache
    callsign_cache,    \* GatewayApp._callsign_cache
    stats,        \* messages_received, messages_processed,
                  \*   position_updates_sent, errors
    apc,          \* GatewayApp._process_message: "idle" | "reporting" | "cancelled"
    reports,      \* the calls of send_position_update, in order
    handled,      \* the handlers that ran for the latest message
    alog,         \* the latest line GatewayApp logged
    amsg,         \* the data of the latest _process_message call
    store_writes, \* the durable writes the latest _process_message call issued
    int_val,      \* _convert_numeric_to_id: val, the value int(numeric_id) gave
    hex_id,       \* the id it returned, None before it ran
    earlier,      \* the argument and the result of the call before this one
    conn,         \* PersistentDict.conn: "None" | "open"
    autocommit,   \* PersistentDict.autocommit
    table,        \* the rows of the table that are committed to the file
    txn,          \* the rows as the open connection sees them
    dict_out,     \* the latest PersistentDict operation and how it ended
    assigned,     \* per key, the value the latest __setitem__ stored and the
                  \*   autocommit setting it was stored under; Unset once the
                  \*   row is deleted or written by someone else
    inbox,        \* client.messages: the messages received from the broker
                  \*   and not yet taken by the loop of MqttClient.run
    arrived,      \* how many messages the broker has delivered
    order,        \* the arrival numbers of the messages, as handed to
                  \*   _process_message
    reportOrder,  \* the arrival numbers of the messages reported, as
                  \*   send_position_update was called
    db_file,      \* the state file at storage.db_path: [exists, valid, ids, names]
    handles,      \* every SqliteDict that initialize opened: [table, ns, state]
    init_result,  \* what initialize returned: "none" | "True" | "False"
    store_fault,  \* the statement of initialize's try block that raised
    lifecycle,    \* GatewayApp.start: [start, stop_event, stats_task, http_client]
    legacy        \* the callback-based MqttClient of src/mqtt_client.py:
                  \*   [pc, reconnect_attempts, waits, reconnects, all_failed]

reporterVars == <<env, classState, BASE_URL, config, clientGiven,
                  startFailed, client, rpc, rresult, task, calls, lastResp,
                  all5xx, got2xx, log>>
mqttVars == <<mpc, reconnect_interval, waits, mclient, msg, delivered,
              received, mlog, cancelledAt>>
appVars == <<appConfig, node_id_mapping, callsign_mapping, node_id_cache,
             callsign_cache, stats, apc, reports, handled, alog, amsg,
             store_writes>>
hexVars == <<int_val, hex_id, earlier>>
dictVars == <<conn, autocommit, table, txn, dict_out, assigned>>
pipeVars == <<inbox, arrived, order, reportOrder>>
bootVars == <<db_file, handles, init_result, store_fault, lifecycle>>
legacyVars == <<legacy>>
auxVars == <<hexVars, dictVars, pipeVars, bootVars, legacyVars>>
vars == <<reporterVars, mqttVars, appVars, auxVars>>

(***************************************************************************)
(* Text helpers                                                            *)
(***************************************************************************)
Last(s) == s[Len(s)]
Front(s) == SubSeq(s, 1, Len(s) - 1)

\* Python's str.strip() over the characters of the model.
Whitespace == {" ", "\n"}

RECURSIVE LStrip(_)
LStrip(s) == IF s # <<>> /\ Head(s) \in Whitespace THEN LStrip(Tail(s)) ELSE s

RECURSIVE RStrip(_)
RStrip(s) == IF s # <<>> /\ Last(s) \in Whitespace THEN RStrip(Front(s)) ELSE s

Strip(s) == RStrip(LStrip(s))

\* utils.sanitize_for_log: "\n" becomes the two characters backslash, n.
RECURSIVE sanitize_for_log(_)
sanitize_for_log(s) ==
    IF s = <<>> THEN <<>>
    ELSE (IF Head(s) = "\n" THEN <<"\\", "n">> ELSE <<Head(s)>>)
         \o sanitize_for_log(Tail(s))

\* The class [a-zA-Z0-9_] restricted to the characters of the model.
WordChars == {"k", "t", "b", "1", "_"}

AllWord(s) == \A i \in 1..Len(s) : s[i] \in WordChars

\* re.match(r"^[a-zA-Z0-9_]+$", s): in Python "$" matches at the end of the
\* string and also just before a newline that ends the string.
IdentifierRegexMatches(s) ==
    \/ Len(s) >= 1 /\ AllWord(s)
    \/ Len(s) >= 2 /\ Last(s) = "\n" /\ AllWord(Front(s))

is_valid_caltopo_identifier(identifier) == IdentifierRegexMatches(identifier)

(***************************************************************************)
(* Class-level base URL validation                                         *)
(***************************************************************************)
\* A URL is a sequence of lexical tokens, e.g.
\* <<"https", "://", "caltopo", ".", "com", "/", "api">>.
HostEnd == {"/", ":8080", "?", "\n"}

RECURSIVE TakeHost(_)
TakeHost(s) ==
    IF s = <<>> \/ Head(s) \in HostEnd THEN <<>>
    ELSE <<Head(s)>> \o TakeHost(Tail(s))

\* urlparse(url).hostname; <<>> stands for None (no "//" or an empty host).
Hostname(url) ==
    IF Len(url) >= 2 /\ url[2] = "://" THEN TakeHost(SubSeq(url, 3, Len(url)))
    ELSE <<>>

EndsWith(s, suffix) ==
    /\ Len(s) >= Len(suffix)
    /\ SubSeq(s, Len(s) - Len(suffix) + 1, Len(s)) = suffix

\* re.match("^" + re.escape(pattern).replace("\*", ".*") + "$", url):
\* "*" matches any run of tokens but a newline, every other token matches
\* itself, and "$" also matches before a newline that ends the URL.
RECURSIVE matches_url_pattern(_, _)
matches_url_pattern(url, pattern) ==
    IF pattern = <<>> THEN url = <<>> \/ url = <<"\n">>
    ELSE IF Head(pattern) = "*"
         THEN \E n \in 0..Len(url) :
                  /\ \A i \in 1..n : url[i] # "\n"
                  /\ matches_url_pattern(SubSeq(url, n + 1, Len(url)), Tail(pattern))
         ELSE /\ url # <<>>
              /\ Head(url) = Head(pattern)
              /\ matches_url_pattern(Tail(url), Tail(pattern))

\* [p.strip() for p in s.split(",") if p.strip()]; raw is the list of the
\* comma-separated items.
RECURSIVE allowed_patterns(_)
allowed_patterns(raw) ==
    IF raw = <<>> THEN <<>>
    ELSE (IF Strip(Head(raw)) # <<>> THEN <<Strip(Head(raw))>> ELSE <<>>)
         \o allowed_patterns(Tail(raw))

\* hostname == "caltopo.com" or hostname.endswith(".caltopo.com")
HostIsCalTopo(host) ==
    \/ host = <<"caltopo", ".", "com">>
    \/ EndsWith(host, <<".", "caltopo", ".", "com">>)

\* The outcome of the class body, lines 53-90. With no pattern configured
\* and a hostname of None the comparison is false and None.endswith raises
\* AttributeError.
ValidateBaseUrl(e) ==
    LET pats == allowed_patterns(e.patterns)
        host == Hostname(e.url)
    IN IF pats # <<>>
       THEN IF \E i \in 1..Len(pats) : matches_url_pattern(e.url, pats[i])
            THEN "defined" ELSE "ValueError"
       ELSE IF host = <<>> THEN "AttributeError"
            ELSE IF HostIsCalTopo(host) THEN "defined" ELSE "ValueError"

(***************************************************************************)
(* Inputs of the reporter                                                  *)
(***************************************************************************)
DefaultUrl == <<"https", "://", "caltopo", ".", "com", "/", "api">>

Urls == {
    DefaultUrl,
    <<"https", "://", "sub", ".", "caltopo", ".", "com", "/", "api">>,
    <<"https", "://", "evil", ".", "example", ".", "com", "/", "api">>,
    <<"https", "://", "evilcaltopo", ".", "com", "/", "api">>,
    <<"https", "://", "caltopo", ".", "com", ".", "evil", ".", "com", "/", "api">>,
    <<"caltopo", ".", "com", "/", "api">>,
    <<"http", "://", "localhost", ":8080", "/", "api">>,
    <<"http", "://", "localhost", ":8080", "/", "api", "\n">> }

PatternLists == {
    <<>>,
    << <<" ">> >>,
    << <<"http", "://", "localhost", ":8080", "/", "*">> >>,
    << <<" ", "http", "://", "*", ":8080", "/", "*">>, <<>> >>,
    << <<"https", "://", "caltopo", ".", "com", "/", "v2">>,
       <<"https", "://", "evil", ".", "example", ".", "com", "/", "api">> >> }

Envs == [url : Urls, patterns : PatternLists]
DefaultEnv == [url |-> DefaultUrl, patterns |-> <<>>]

\* Identifiers as the configuration file may hold them: unset, "k_1",
\* "k_1\n" and "b k"; and as a node's own group may hold them: unset,
\* "t\n" and "b k".
RawIds == { <<>>, <<"k", "_", "1">>, <<"k", "_", "1", "\n">>, <<"b", " ", "k">> }
NodeGroups == { <<>>, <<"t", "\n">>, <<"b", " ", "k">> }

RawConfigs == [connect_key : RawIds, group : RawIds]
KeyOnlyRawConfig == [connect_key |-> <<"k", "_", "1">>, group |-> <<>>]

\* CalTopoConfig.strip_whitespace: v.strip() or None.
strip_whitespace(v) == Strip(v)

ConfigOf(raw) == [connect_key |-> strip_whitespace(raw.connect_key),
                  group |-> strip_whitespace(raw.group)]

has_connect_key(c) == c.connect_key # <<>> /\ Strip(c.connect_key) # <<>>
has_group(c) == c.group # <<>> /\ Strip(c.group) # <<>>

Dest == {"connect_key", "group"}

\* What client.get(url) may do: answer with a status, or raise.
Statuses == {200, 204, 404, 429, 499, 500, 599, 600}
Raised == {"ConnectError", "ReadTimeout", "ReadError", "Exception"}

Outcomes ==
    [code : Statuses, exc : {""}, echo : {FALSE}]
        \cup [code : {0}, exc : Raised, echo : {FALSE}]
        \cup [code : {0}, exc : {"ConnectError"}, echo : {TRUE}]

NoResp == [code |-> 0, exc |-> "", echo |-> FALSE]

\* The exception classes, each with its base class: httpx's, json's and
\* asyncio.CancelledError, which is a BaseException and no Exception.
ExcBase(c) ==
    CASE c = "ConnectTimeout" -> "TimeoutException"
      [] c = "ReadTimeout" -> "TimeoutException"
      [] c = "ConnectError" -> "NetworkError"
      [] c = "ReadError" -> "NetworkError"
      [] c = "TimeoutException" -> "TransportError"
      [] c = "NetworkError" -> "TransportError"
      [] c = "TransportError" -> "RequestError"
      [] c = "JSONDecodeError" -> "ValueError"
      [] c = "UnicodeDecodeError" -> "ValueError"
      [] c = "CancelledError" -> "BaseException"
      [] c = "Exception" -> "BaseException"
      [] OTHER -> "Exception"

RECURSIVE IsInstance(_, _)
IsInstance(c, cls) ==
    \/ c = cls
    \/ c # "BaseException" /\ IsInstance(ExcBase(c), cls)

Is2xx(o) == o.exc = "" /\ 200 <= o.code /\ o.code < 300
Is5xx(o) == o.exc = "" /\ 500 <= o.code /\ o.code < 600

max_retries == 3

Redacted == <<"<REDACTED>">>

(***************************************************************************)
(* CalTopoReporter                                                         *)
(***************************************************************************)
NoTask == [pc |-> "none", attempt |-> 0, ident |-> <<>>, result |-> FALSE]

LogRec(kind, etype, text) == [kind |-> kind, text |-> text]

\* log_url: re.sub("(BASE_URL/)[^?]+", "\1<REDACTED>", url). The segment
\* between BASE_URL/ and "?" is the identifier, whatever characters it
\* holds ([^?] also matches a newline); the base URLs of the model hold no
\* regular-expression operator but ".", which matches itself.
LogUrlIdentifier(ident) == Redacted

\* The text of a raised exception: it may quote the request URL, and with
\* it the identifier (tests/test_redaction.py:75-117).
ExcText(o, ident) == IF o.echo THEN ident ELSE <<>>

\* A mutant: 4xx answers are retried like 5xx ones.
ClassifyRetryAll(o) ==
    IF o.exc # ""
    THEN IF IsInstance(o.exc, "ConnectError") \/ IsInstance(o.exc, "TimeoutException")
         THEN "retry" ELSE "fail"
    ELSE IF o.code = 200 THEN "ok" ELSE "retry"

\* A mutant: a connection error is handled as an unexpected one.
ClassifyNoNetRetry(o) ==
    IF o.exc # ""
    THEN IF IsInstance(o.exc, "TimeoutException") THEN "retry" ELSE "fail"
    ELSE IF o.code = 200 THEN "ok"
         ELSE IF (500 <= o.code /\ o.code < 600) \/ o.code = 429 THEN "retry"
         ELSE "fail"

\* A variant: a cancellation is handled as a timeout is.
ClassifyCancelAsTimeout(o) ==
    IF o.exc # ""
    THEN IF IsInstance(o.exc, "ConnectError") \/ IsInstance(o.exc, "TimeoutException")
            \/ o.exc = "CancelledError"
         THEN "retry"
         ELSE IF IsInstance(o.exc, "Exception") THEN "fail" ELSE "propagate"
    ELSE IF o.code = 200 THEN "ok"
         ELSE IF (500 <= o.code /\ o.code < 600) \/ o.code = 429 THEN "retry"
         ELSE "fail"

\* _make_api_request, lines 288-322: what one answer or exception leads
\* to. An exception that neither except clause names leaves the coroutine.
Classify(o) ==
    IF o.exc # ""
    THEN IF IsInstance(o.exc, "ConnectError") \/ IsInstance(o.exc, "TimeoutException")
         THEN "retry"
         ELSE IF IsInstance(o.exc, "Exception") THEN "fail" ELSE "propagate"
    ELSE IF o.code = 200 THEN "ok"
         ELSE IF (500 <= o.code /\ o.code < 600) \/ o.code = 429 THEN "retry"
         ELSE "fail"

\* The record logged for an outcome.
OutcomeLog(o, d, ident) ==
    IF o.exc # ""
    THEN LogRec(IF Classify(o) = "retry" THEN "conn_retry" ELSE "unexpected",
                d, ExcText(o, ident))
    ELSE LogRec(IF Classify(o) = "ok" THEN "sent"
                ELSE IF Classify(o) = "retry" THEN "http_retry" ELSE "http_fatal",
                d, <<>>)

\* A mutant: one attempt more before giving up.
max_retries_plus_one == max_retries + 1

RetryBudget == max_retries

\* A mutant: start() is not called, the client stays as it is.
ClientNotStarted(c, works) == c

\* start(), lines 108-112, as send_position_update awaits it at 169-170.
\* works is FALSE when start() returns with self.client still None: the
\* case line 176 guards and tests/test_caltopo_reporter.py:288-298 runs.
ClientAfterStart(c, works) ==
    IF c = "None" THEN (IF works THEN "owned" ELSE "None") ELSE c

\* The class body runs once, when the module is imported.
ClassBody ==
    /\ classState = "loading"
    /\ classState' = ValidateBaseUrl(env)
    /\ BASE_URL' = IF ValidateBaseUrl(env) = "defined" THEN env.url ELSE <<>>
    /\ UNCHANGED <<env, config, clientGiven, startFailed, client, rpc,
                   rresult, task, calls, lastResp, all5xx, got2xx, log, mqttVars, appVars, auxVars>>

\* __init__, lines 92-106.
Construct ==
    /\ classState = "defined"
    /\ rpc = "new"
    /\ client' = IF clientGiven THEN "shared" ELSE "None"
    /\ rpc' = "idle"
    /\ UNCHANGED <<env, classState, BASE_URL, config, clientGiven, startFailed,
                   rresult, task, calls, lastResp, all5xx, got2xx, log, mqttVars, appVars, auxVars>>

\* start(), called by the gateway after construction.
Start(works) ==
    /\ rpc = "idle"
    /\ client' = ClientAfterStart(client, works)
    /\ startFailed' = (client = "None" /\ ~works)
    /\ UNCHANGED <<env, classState, BASE_URL, config, clientGiven, rpc, rresult, task, calls, lastResp, all5xx,
                   got2xx, log, mqttVars, appVars, auxVars>>

\* Lines 181-192: one delivery for each configured destination; the group
\* delivery goes to the caller's group, or to the global one when the
\* caller gives none.
Deliveries(c, group) ==
    [d \in Dest |->
        IF d = "connect_key" /\ has_connect_key(c)
        THEN [NoTask EXCEPT !.pc = "ready", !.ident = c.connect_key]
        ELSE IF d = "group" /\ has_group(c)
        THEN [NoTask EXCEPT !.pc = "ready",
                 !.ident = IF group # <<>> THEN group ELSE c.group]
        ELSE NoTask]

\* send_position_update up to its await of asyncio.gather, lines 168-198.
\* group is the caller's argument: a node's own group, unvalidated, or None.
SendPositionUpdate(group, works) ==
    /\ rpc = "idle"
    /\ client' = ClientAfterStart(client, works)
    /\ startFailed' = (client = "None" /\ ~works)
    /\ IF client' = "None"
       THEN /\ rpc' = "raised"
            /\ UNCHANGED <<task, rresult>>
       ELSE /\ task' = Deliveries(config, group)
            /\ rpc' = IF \A d \in Dest : task'[d].pc = "none" THEN "returned" ELSE "gather"
            /\ rresult' = FALSE
    /\ UNCHANGED <<env, classState, BASE_URL, config, clientGiven,
                   calls, lastResp, all5xx, got2xx, log, mqttVars, appVars, auxVars>>

\* _send_to_connect_key / _send_to_group and the first pass of the loop of
\* _make_api_request, up to its await of client.get: lines 205-248, 275-288.
TaskStart(d) ==
    /\ rpc = "gather"
    /\ task[d].pc = "ready"
    /\ IF ~is_valid_caltopo_identifier(task[d].ident)
       THEN /\ task' = [task EXCEPT ![d].pc = "done", ![d].result = FALSE]
            /\ log' = log \cup {LogRec("invalid_identifier", d,
                                       sanitize_for_log(task[d].ident))}
            /\ UNCHANGED calls
       ELSE /\ task' = [task EXCEPT ![d].pc = "get"]
            /\ calls' = [calls EXCEPT ![d] = @ + 1]
            /\ log' = log \cup {LogRec("sending", d, LogUrlIdentifier(task[d].ident))}
    /\ UNCHANGED <<env, classState, BASE_URL, config, clientGiven,
                   startFailed, client, rpc, rresult, lastResp, all5xx, got2xx,
                   mqttVars, appVars, auxVars>>

\* A variant: one attempt counter for the whole report.
attempts_shared(t, d) == t["connect_key"].attempt + t["group"].attempt

\* Line 281: attempt is a local variable of each call of
\* _make_api_request.
AttemptsMade(t, d) == t[d].attempt

\* client.get returns or raises, and the loop body runs to its next await
\* or to its return: lines 288-336.
GetReturns(d, o) ==
    /\ rpc \in {"gather", "cancelling"}
    /\ task[d].pc = "get"
    /\ lastResp' = [lastResp EXCEPT ![d] = o]
    /\ all5xx' = [all5xx EXCEPT ![d] = @ /\ Is5xx(o)]
    /\ got2xx' = [got2xx EXCEPT ![d] = @ \/ Is2xx(o)]
    /\ IF Classify(o) = "ok"
       THEN /\ task' = [task EXCEPT ![d].pc = "done", ![d].result = TRUE]
            /\ log' = log \cup {OutcomeLog(o, d, task[d].ident)}
       ELSE IF Classify(o) = "fail"
       THEN /\ task' = [task EXCEPT ![d].pc = "done", ![d].result = FALSE]
            /\ log' = log \cup {OutcomeLog(o, d, task[d].ident)}
       ELSE IF AttemptsMade(task, d) < RetryBudget
       THEN /\ task' = [task EXCEPT ![d].pc = "sleep"]
            /\ log' = log \cup {OutcomeLog(o, d, task[d].ident),
                                LogRec("retrying_in", "", <<>>)}
       ELSE /\ task' = [task EXCEPT ![d].pc = "done", ![d].result = FALSE]
            /\ log' = log \cup {OutcomeLog(o, d, task[d].ident),
                                LogRec("exhausted", d, <<>>)}
    /\ UNCHANGED <<env, classState, BASE_URL, config, clientGiven,
                   startFailed, client, rpc, rresult, calls, mqttVars, appVars, auxVars>>

\* asyncio.sleep(delay) ends and the next pass issues its GET: 330, 281-288.
SleepDone(d) ==
    /\ rpc \in {"gather", "cancelling"}
    /\ task[d].pc = "sleep"
    /\ task' = [task EXCEPT ![d].pc = "get", ![d].attempt = @ + 1]
    /\ calls' = [calls EXCEPT ![d] = @ + 1]
    /\ log' = log \cup {LogRec("sending", d, LogUrlIdentifier(task[d].ident))}
    /\ UNCHANGED <<env, classState, BASE_URL, config, clientGiven,
                   startFailed, client, rpc, rresult, lastResp, all5xx, got2xx,
                   mqttVars, appVars, auxVars>>

\* A variant: the call goes on as soon as one delivery has ended.
first_completed(t) == \E d \in Dest : t[d].pc = "done"

\* Line 198: gather has a result when every task it was given has ended.
GatherReady(t) == \A d \in Dest : t[d].pc \in {"none", "done", "cancelled"}

\* gather has every result; success_count and the return: lines 198-203.
GatherDone ==
    /\ rpc = "gather"
    /\ GatherReady(task)
    /\ rresult' = (Cardinality({d \in Dest : task[d].pc = "done" /\ task[d].result}) > 0)
    /\ rpc' = "returned"
    /\ UNCHANGED <<env, classState, BASE_URL, config, clientGiven,
                   startFailed, client, task, calls, lastResp, all5xx, got2xx,
                   log, mqttVars, appVars, auxVars>>

\* The CancelledError a cancelled task finds at its await.
Cancellation == [code |-> 0, exc |-> "CancelledError", echo |-> FALSE]

\* What a delivery does with the cancellation: one that has not run yet
\* never runs; at client.get (line 288, inside the try statement) the
\* except clauses decide; at asyncio.sleep (line 330, outside it) the
\* error leaves the coroutine.
Cancelled(t) ==
    CASE t.pc \in {"none", "done"} -> t
      [] t.pc = "get" /\ Classify(Cancellation) = "fail" ->
            [t EXCEPT !.pc = "done", !.result = FALSE]
      [] t.pc = "get" /\ Classify(Cancellation) = "retry" ->
            IF t.attempt < RetryBudget THEN [t EXCEPT !.pc = "sleep"]
            ELSE [t EXCEPT !.pc = "done", !.result = FALSE]
      [] OTHER -> [t EXCEPT !.pc = "cancelled"]

\* The task awaiting send_position_update is cancelled while it waits for
\* gather (gateway_app.py:243): gather cancels every task that has not
\* ended, and each finds the CancelledError at its await.
ReporterCancel ==
    /\ rpc = "gather"
    /\ rpc' = "cancelling"
    /\ task' = [d \in Dest |-> Cancelled(task[d])]
    /\ UNCHANGED <<env, classState, BASE_URL, config, clientGiven,
                   startFailed, client, rresult, calls, lastResp, all5xx, got2xx,
                   log, mqttVars, appVars, auxVars>>

\* Every task has ended: gather, cancelled, raises CancelledError into
\* send_position_update, which has no handler for it.
CancelDone ==
    /\ rpc = "cancelling"
    /\ GatherReady(task)
    /\ rpc' = "cancelled"
    /\ UNCHANGED <<env, classState, BASE_URL, config, clientGiven,
                   startFailed, client, rresult, task, calls, lastResp, all5xx,
                   got2xx, log, mqttVars, appVars, auxVars>>

(***************************************************************************)
(* MqttClient                                                              *)
(***************************************************************************)
MaxFailures == 9
MaxMessages == 3

max_reconnect_interval == 60

Min(a, b) == IF a <= b THEN a ELSE b

RECURSIVE Pow2(_)
Pow2(k) == IF k = 0 THEN 1 ELSE 2 * Pow2(k - 1)

\* What connecting, subscribing or waiting for a message may raise;
\* "end" is the message iterator ending without an exception.
MqttFaults == {"MqttError", "Exception"}

\* The payloads of a bus message.
Payloads == {"json_object", "json_scalar", "bad_json", "bad_utf8"}

\* What the message callback may raise.
CallbackFaults == {"RuntimeError"}

NoMsg == [payload |-> "none", retain |-> FALSE]

\* What lines 116-127 raise for a payload: decode fails on bytes that are
\* not UTF-8, json.loads on text that is not JSON, and the retain flag
\* cannot be stored in a JSON value that is no object.
DecodeRaises(payload) ==
    CASE payload = "bad_utf8" -> "UnicodeDecodeError"
      [] payload = "bad_json" -> "JSONDecodeError"
      [] payload = "json_scalar" -> "TypeError"
      [] OTHER -> "none"

\* A variant: the handlers of _process_message catch BaseException.
CatchesBaseException(exc) == IsInstance(exc, "BaseException")

\* A variant: only the JSONDecodeError handler is there.
CatchesJSONDecodeErrorOnly(exc) == IsInstance(exc, "JSONDecodeError")

\* The except clauses of _process_message, lines 132-138.
ProcessMessageCatches(exc) ==
    IsInstance(exc, "JSONDecodeError") \/ IsInstance(exc, "Exception")

\* The except clauses of run, lines 89-95, in their order: "log" when the
\* handler logs and the loop goes on, "raise" when the exception leaves run.
RunHandler(exc) ==
    IF IsInstance(exc, "MqttError") THEN "log"
    ELSE IF IsInstance(exc, "CancelledError") THEN "raise"
    ELSE IF IsInstance(exc, "Exception") THEN "log"
    ELSE "raise"

\* Where an exception raised at a suspension point of run ends up:
\* "contained" in _process_message, "backoff" after a handler of run
\* logged it, "propagates" out of run. The sleep at line 102 is outside
\* the try statement.
Disposition(point, exc) ==
    IF point = "sleeping" THEN "propagates"
    ELSE IF point = "callback" /\ ProcessMessageCatches(exc) THEN "contained"
    ELSE IF RunHandler(exc) = "log" THEN "backoff"
    ELSE "propagates"

\* A variant: the delay doubles without the cap.
NextIntervalUncapped(interval) == interval * 2

\* Line 103.
NextInterval(interval) == Min(interval * 2, max_reconnect_interval)

\* Line 80.
IntervalOnConnect(interval) == 1

\* A variant: the loop gives up after five failures in a row.
GivesUpAfterFive(slept) == Len(slept) < 5

\* Line 65: while True.
LoopCondition(slept) == TRUE

\* run() is awaited: lines 62-77, up to the connection attempt.
MqttRun ==
    /\ mpc = "off"
    /\ mpc' = "connecting"
    /\ reconnect_interval' = 1
    /\ UNCHANGED <<waits, mclient, msg, delivered, received, mlog,
                   cancelledAt, reporterVars, appVars, auxVars>>

\* The connection is made: lines 77-83, up to the await of subscribe.
ConnectOk ==
    /\ mpc = "connecting"
    /\ mclient' = "client"
    /\ reconnect_interval' = IntervalOnConnect(reconnect_interval)
    /\ waits' = <<>>
    /\ mpc' = "subscribing"
    /\ UNCHANGED <<msg, delivered, received, mlog, cancelledAt,
                   reporterVars, appVars, auxVars>>

\* An exception other than a cancellation leaves the try block: its
\* handler logs, finally clears the client, and the loop sleeps: 89-102.
Backoff ==
    /\ Len(waits) < MaxFailures
    /\ mclient' = "None"
    /\ waits' = Append(waits, reconnect_interval)
    /\ mpc' = "sleeping"
    /\ msg' = NoMsg
    /\ UNCHANGED <<reconnect_interval, delivered, cancelledAt,
                   reporterVars, appVars, auxVars>>

\* An exception leaves run: finally clears the client, lines 96-98.
Propagates ==
    /\ mpc' = "cancelled"
    /\ mclient' = "None"
    /\ msg' = NoMsg
    /\ UNCHANGED <<reconnect_interval, waits, delivered, reporterVars, appVars, auxVars>>

ConnectFails(fault) ==
    /\ mpc = "connecting"
    /\ fault \in MqttFaults
    /\ Disposition(mpc, fault) = "backoff"
    /\ Backoff
    /\ mlog' = "run_error"
    /\ UNCHANGED received

SubscribeOk ==
    /\ mpc = "subscribing"
    /\ mpc' = "waiting"
    /\ UNCHANGED <<reconnect_interval, waits, mclient, msg, delivered,
                   received, mlog, cancelledAt, reporterVars, appVars, auxVars>>

SubscribeFails(fault) ==
    /\ mpc = "subscribing"
    /\ fault \in MqttFaults
    /\ Disposition(mpc, fault) = "backoff"
    /\ Backoff
    /\ mlog' = "run_error"
    /\ UNCHANGED received

\* The connection drops while the loop waits for a message, or the message
\* iterator ends.
Disconnect(fault) ==
    /\ mpc = "waiting"
    /\ fault \in MqttFaults \cup {"end"}
    /\ fault # "end" => Disposition(mpc, fault) = "backoff"
    /\ Backoff
    /\ mlog' = IF fault = "end" THEN mlog ELSE "run_error"
    /\ UNCHANGED received

\* _process_message up to its await of the callback, lines 115-130. A
\* payload that is not UTF-8, not JSON, or JSON but no object raises
\* before the callback; the handlers at 132-138 log it and the message is
\* dropped.
MessageArrives(payload, retain) ==
    /\ mpc = "waiting"
    /\ received < MaxMessages
    /\ received' = received + 1
    /\ LET exc == DecodeRaises(payload) IN
       IF exc = "none"
       THEN /\ msg' = [payload |-> payload, retain |-> retain]
            /\ delivered' = delivered + 1
            /\ mpc' = "callback"
            /\ UNCHANGED <<reconnect_interval, waits, mclient, mlog,
                           cancelledAt, reporterVars, appVars, auxVars>>
       ELSE IF ProcessMessageCatches(exc)
       THEN /\ mlog' = IF IsInstance(exc, "JSONDecodeError")
                       THEN "parse_warning" ELSE "processing_error"
            /\ UNCHANGED <<mpc, msg, delivered, reconnect_interval, waits,
                           mclient, cancelledAt, reporterVars, appVars, auxVars>>
       ELSE /\ Backoff
            /\ mlog' = "run_error"

\* The callback returns, or raises: lines 130-138.
CallbackEnds(exc) ==
    /\ mpc = "callback"
    /\ exc \in CallbackFaults \cup {"none"}
    /\ IF exc = "none" \/ Disposition(mpc, exc) = "contained"
       THEN /\ msg' = NoMsg
            /\ mpc' = "waiting"
            /\ mlog' = IF exc = "none" THEN mlog ELSE "processing_error"
            /\ UNCHANGED <<reconnect_interval, waits, mclient, delivered,
                           cancelledAt, reporterVars, appVars, auxVars>>
       ELSE /\ Backoff
            /\ mlog' = "run_error"
    /\ UNCHANGED received

\* asyncio.sleep returns: line 103 and the next pass of the loop.
MqttSleepDone ==
    /\ mpc = "sleeping"
    /\ reconnect_interval' = NextInterval(reconnect_interval)
    /\ mpc' = IF LoopCondition(waits) THEN "connecting" ELSE "returned"
    /\ UNCHANGED <<waits, mclient, msg, delivered, received, mlog,
                   cancelledAt, reporterVars, appVars, auxVars>>

\* The task is cancelled while it is suspended: CancelledError is raised at
\* the await where run, or the callback it awaits, is waiting.
MqttCancel ==
    /\ mpc \in {"connecting", "subscribing", "waiting", "callback", "sleeping"}
    /\ cancelledAt = "none"
    /\ cancelledAt' = mpc
    /\ LET d == Disposition(mpc, "CancelledError") IN
       CASE d = "propagates" ->
                /\ Propagates
                /\ UNCHANGED <<received, mlog>>
         [] d = "contained" ->
                /\ msg' = NoMsg
                /\ mpc' = "waiting"
                /\ mlog' = "processing_error"
                /\ UNCHANGED <<reconnect_interval, waits, mclient, delivered,
                               received, reporterVars, appVars, auxVars>>
         [] d = "backoff" ->
                /\ Len(waits) < MaxFailures
                /\ mclient' = "None"
                /\ waits' = Append(waits, reconnect_interval)
                /\ mpc' = "sleeping"
                /\ msg' = NoMsg
                /\ mlog' = "run_error"
                /\ UNCHANGED <<reconnect_interval, delivered, received,
                               reporterVars, appVars, auxVars>>

MqttIdle ==
    /\ mpc = "off"
    /\ reconnect_interval = 1
    /\ waits = <<>>
    /\ mclient = "None"
    /\ msg = NoMsg
    /\ delivered = 0
    /\ received = 0
    /\ mlog = ""
    /\ cancelledAt = "none"

(***************************************************************************)
(* PersistentDict (src/src/persistent_dict.py)                             *)
(***************************************************************************)
\* Python values, all of one shape: a type, the text of a scalar, and the
\* items of a container (the keys and values of a dict alternate).
PyValue(t, txt, items) == [t |-> t, s |-> txt, items |-> items]
PyStr(txt) == PyValue("str", txt, <<>>)
PyInt(txt) == PyValue("int", txt, <<>>)
PyList(items) == PyValue("list", "", items)
PyTuple(items) == PyValue("tuple", "", items)
PyDict(items) == PyValue("dict", "", items)
PySet(items) == PyValue("set", "", items)
Unset == PyValue("unset", "", <<>>)

\* How an operation ends when it raises.
Ends(exc) == PyValue(exc, "", <<>>)
Done == PyValue("done", "", <<>>)

\* The values assigned to a key: a string, a list, a tuple, a dict with a
\* string key, a dict with an integer key, and a set.
DictValues == {
    PyStr("v"),
    PyList(<<PyInt("1"), PyStr("v")>>),
    PyTuple(<<PyInt("1"), PyStr("v")>>),
    PyDict(<<PyStr("a"), PyInt("1")>>),
    PyDict(<<PyInt("1"), PyStr("v")>>),
    PySet(<<PyInt("1")>>) }

DictKeys == {"key1", "key2"}

\* A row that does not exist; a text never starts with this token.
NoRow == <<"no row">>

\* The JSON text of a scalar; of a dict key, which json.dumps turns into a
\* string when it is an integer.
Literal(v) == IF v.t = "str" THEN <<"\"", v.s, "\"">> ELSE <<v.s>>
KeyLiteral(k) == <<"\"", k.s, "\"">>

RECURSIVE Elements(_)
Elements(items) ==
    IF items = <<>> THEN <<>>
    ELSE IF Len(items) = 1 THEN Literal(items[1])
    ELSE Literal(items[1]) \o <<",">> \o Elements(Tail(items))

RECURSIVE Members(_)
Members(items) ==
    IF items = <<>> THEN <<>>
    ELSE KeyLiteral(items[1]) \o <<":">> \o Literal(items[2])
         \o (IF Len(items) = 2 THEN <<>> ELSE <<",">> \o Members(Tail(Tail(items))))

\* json.dumps: a tuple is written as an array; a set is not serialisable.
dumps(v) ==
    CASE v.t \in {"str", "int"} -> Literal(v)
      [] v.t \in {"list", "tuple"} -> <<"[">> \o Elements(v.items) \o <<"]">>
      [] v.t = "dict" -> <<"{">> \o Members(v.items) \o <<"}">>
      [] OTHER -> <<"TypeError">>

Digits == {"0", "1", "2"}

ParseScalar(tk) ==
    IF Len(tk) = 3 /\ tk[1] = "\"" /\ tk[3] = "\"" THEN PyStr(tk[2])
    ELSE IF Len(tk) = 1 /\ tk[1] \in Digits THEN PyInt(tk[1])
    ELSE Ends("JSONDecodeError")

\* The parts of a token sequence between the separators.
RECURSIVE Split(_, _)
Split(tk, sep) ==
    IF \A i \in 1..Len(tk) : tk[i] # sep THEN <<tk>>
    ELSE LET i == CHOOSE j \in 1..Len(tk) :
                      tk[j] = sep /\ \A k \in 1..(j - 1) : tk[k] # sep
         IN <<SubSeq(tk, 1, i - 1)>> \o Split(SubSeq(tk, i + 1, Len(tk)), sep)

ParseMember(part) ==
    IF Len(part) >= 5 /\ part[4] = ":" /\ ParseScalar(SubSeq(part, 1, 3)).t = "str"
    THEN <<ParseScalar(SubSeq(part, 1, 3)), ParseScalar(SubSeq(part, 5, Len(part)))>>
    ELSE <<Ends("JSONDecodeError"), Ends("JSONDecodeError")>>

RECURSIVE Flatten(_)
Flatten(pairs) == IF pairs = <<>> THEN <<>> ELSE Head(pairs) \o Flatten(Tail(pairs))

\* json.loads: the value of a text, or JSONDecodeError. An array becomes a
\* list and the keys of an object are strings.
loads(tk) ==
    LET body == SubSeq(tk, 2, Len(tk) - 1)
        parts(sep) == IF body = <<>> THEN <<>> ELSE Split(body, sep)
        elements == [i \in 1..Len(parts(",")) |-> ParseScalar(parts(",")[i])]
        members == Flatten([i \in 1..Len(parts(",")) |-> ParseMember(parts(",")[i])])
        ok(items) == \A i \in 1..Len(items) : items[i].t # "JSONDecodeError"
    IN IF Len(tk) >= 2 /\ Head(tk) = "[" /\ Last(tk) = "]"
       THEN IF ok(elements) THEN PyList(elements) ELSE Ends("JSONDecodeError")
       ELSE IF Len(tk) >= 2 /\ Head(tk) = "{" /\ Last(tk) = "}"
       THEN IF ok(members) THEN PyDict(members) ELSE Ends("JSONDecodeError")
       ELSE ParseScalar(tk)

\* Texts another writer of the file leaves in a row: cut short, empty.
BadTexts == { <<"{", "invalid">>, <<>>, <<"[", "1", ",">> }

NoRows == [k \in DictKeys |-> NoRow]
NoneAssigned == [k \in DictKeys |-> [value |-> Unset, autocommit |-> FALSE]]
Op(op, key, outcome) == [op |-> op, key |-> key, outcome |-> outcome]

\* No PersistentDict exists and the file holds no row.
DictIdle ==
    /\ conn = "None"
    /\ autocommit = TRUE
    /\ table = NoRows
    /\ txn = NoRows
    /\ dict_out = Op("none", "", Done)
    /\ assigned = NoneAssigned

\* PersistentDict(db_path, autocommit=ac): __init__, _connect, _create_table.
Open(ac) ==
    /\ conn = "None"
    /\ conn' = "open"
    /\ autocommit' = ac
    /\ txn' = table
    /\ dict_out' = Op("open", "", Done)
    /\ UNCHANGED <<table, assigned, reporterVars, mqttVars, appVars, hexVars, pipeVars, bootVars, legacyVars>>

\* A variant: a text that cannot be decoded raises the decoder's error.
decode_error_raised(text) ==
    IF text = NoRow THEN Ends("KeyError") ELSE loads(text)

\* __getitem__, lines 103-115, for the text of the row (NoRow: no row).
GetOutcome(text) ==
    IF text = NoRow THEN Ends("KeyError")
    ELSE IF loads(text).t = "JSONDecodeError" THEN Ends("KeyError")
    ELSE loads(text)

\* __getitem__(key).
GetItem(key) ==
    /\ dict_out' = Op("get", key, IF conn = "None" THEN Ends("RuntimeError")
                                  ELSE GetOutcome(txn[key]))
    /\ UNCHANGED <<conn, autocommit, table, txn, assigned,
                   reporterVars, mqttVars, appVars, hexVars, pipeVars, bootVars, legacyVars>>

\* A variant: no write is committed.
never_commits(ac) == FALSE

\* Lines 140-141 and 152-153: the write is committed when autocommit is set.
Commits(ac) == ac

\* __setitem__(key, value).
SetItem(key, value) ==
    IF conn = "None"
    THEN /\ dict_out' = Op("set", key, Ends("RuntimeError"))
         /\ UNCHANGED <<conn, autocommit, table, txn, assigned,
                        reporterVars, mqttVars, appVars, hexVars, pipeVars, bootVars, legacyVars>>
    ELSE IF dumps(value) = <<"TypeError">>
    THEN /\ dict_out' = Op("set", key, Ends("TypeError"))
         /\ UNCHANGED <<conn, autocommit, table, txn, assigned,
                        reporterVars, mqttVars, appVars, hexVars, pipeVars, bootVars, legacyVars>>
    ELSE /\ txn' = [txn EXCEPT ![key] = dumps(value)]
         /\ table' = IF Commits(autocommit) THEN txn' ELSE table
         /\ assigned' = [assigned EXCEPT ![key] = [value |-> value,
                                                   autocommit |-> autocommit]]
         /\ dict_out' = Op("set", key, Done)
         /\ UNCHANGED <<conn, autocommit, reporterVars, mqttVars, appVars, hexVars, pipeVars, bootVars, legacyVars>>

\* __delitem__(key).
DelItem(key) ==
    IF conn = "None" \/ txn[key] = NoRow
    THEN /\ dict_out' = Op("del", key, Ends(IF conn = "None" THEN "RuntimeError"
                                                ELSE "KeyError"))
         /\ UNCHANGED <<conn, autocommit, table, txn, assigned,
                        reporterVars, mqttVars, appVars, hexVars, pipeVars, bootVars, legacyVars>>
    ELSE /\ txn' = [txn EXCEPT ![key] = NoRow]
         /\ table' = IF Commits(autocommit) THEN txn' ELSE table
         /\ assigned' = [assigned EXCEPT ![key] = NoneAssigned[key]]
         /\ dict_out' = Op("del", key, Done)
         /\ UNCHANGED <<conn, autocommit, reporterVars, mqttVars, appVars, hexVars, pipeVars, bootVars, legacyVars>>

\* close(), lines 173-177: no commit; sqlite3 drops what the connection
\* did not commit.
Close ==
    /\ conn = "open"
    /\ conn' = "None"
    /\ txn' = table
    /\ dict_out' = Op("close", "", Done)
    /\ UNCHANGED <<autocommit, table, assigned, reporterVars, mqttVars, appVars, hexVars, pipeVars, bootVars, legacyVars>>

\* Another connection writes a text into a row and commits, while no
\* PersistentDict is open (tests/test_persistent_dict.py:88-101).
ForeignWrite(key, text) ==
    /\ conn = "None"
    /\ table' = [table EXCEPT ![key] = text]
    /\ txn' = table'
    /\ assigned' = [assigned EXCEPT ![key] = NoneAssigned[key]]
    /\ dict_out' = Op("foreign", key, Done)
    /\ UNCHANGED <<conn, autocommit, reporterVars, mqttVars, appVars, hexVars, pipeVars, bootVars, legacyVars>>

(***************************************************************************)
(* GatewayApp                                                              *)
(***************************************************************************)
MaxAppMessages == 3

None == <<>>

HexDigits == <<"0", "1", "2", "3", "4", "5", "6", "7",
               "8", "9", "a", "b", "c", "d", "e", "f">>

\* Python integers have no width; the model keeps one as two 16-bit halves,
\* val = hi * 65536 + lo, so that the whole range below 2^32 is reachable.
Wide(n) == [hi |-> n \div 65536, lo |-> n % 65536]

\* val // 16 on the two halves.
Div16(val) == [hi |-> val.hi \div 16, lo |-> (val.hi % 16) * 4096 + val.lo \div 16]

\* format(val, "x"): the lowercase hexadecimal digits of val >= 0.
RECURSIVE ToHex(_)
ToHex(val) ==
    IF val.hi = 0 /\ val.lo < 16 THEN <<HexDigits[val.lo + 1]>>
    ELSE ToHex(Div16(val)) \o <<HexDigits[(val.lo % 16) + 1]>>

\* A variant: the digits are not padded, f"!{val:x}".
NoPad(s, width) == s

\* The width 08: zeros on the left up to 8 characters, never a cut.
RECURSIVE ZeroPad(_, _)
ZeroPad(s, width) == IF Len(s) >= width THEN s ELSE ZeroPad(<<"0">> \o s, width)

\* Line 464: f"!{val:08x}".
format_id(val) == <<"!">> \o ZeroPad(ToHex(val), 8)

\* _convert_numeric_to_id for an integer: val = int(numeric_id), then the
\* formatting.
convert_numeric_to_id(numeric_id) == format_id(Wide(numeric_id))

\* The integers _convert_numeric_to_id is applied to: the two examples
\* 123 and 24896776, and the edges of every digit count up to 2^32 - 1.
HexHighs == {0, 1, 379, 32767, 32768, 65535}
HexLows == {0, 15, 16, 123, 255, 256, 4095, 4096, 58632, 65535}
HexInputs == [hi : HexHighs, lo : HexLows]

NoCall == [numeric_id |-> Wide(0), hex_id |-> <<>>]

\* No conversion has run.
HexIdle ==
    /\ int_val = Wide(0)
    /\ hex_id = <<>>
    /\ earlier = NoCall

\* _convert_numeric_to_id(numeric_id) returns.
Convert ==
    /\ hex_id = <<>>
    /\ hex_id' = format_id(int_val)
    /\ UNCHANGED <<int_val, earlier, reporterVars, mqttVars, appVars, dictVars, pipeVars, bootVars, legacyVars>>

\* The next call, with another argument.
ConvertNext(n) ==
    /\ hex_id # <<>>
    /\ earlier' = [numeric_id |-> int_val, hex_id |-> hex_id]
    /\ int_val' = n
    /\ hex_id' = <<>>
    /\ UNCHANGED <<reporterVars, mqttVars, appVars, dictVars, pipeVars, bootVars, legacyVars>>

\* The numeric senders of the messages, and the stable ids a nodeinfo
\* payload may carry: none, the sender's computed one, or another one.
NumericIds == {123, 24896776}
ForeignId == <<"!", "8", "2", "3", "a", "4", "e", "d", "c">>

\* The keys of the two namespaces; 0 stands for a "from" that is falsy.
Senders == NumericIds \cup {0}
HwIds == {convert_numeric_to_id(n) : n \in Senders} \cup {ForeignId}

TeamLead == <<"TEAM-LEAD">>
Alice == <<"Alice">>
ShortName == <<"AL">>
Labels == {TeamLead, Alice, ShortName} \cup HwIds

NoMapping == [device_id |-> None, group |-> None, present |-> FALSE]

\* Config.nodes: no node; the foreign id with a label and a group of its
\* own; the computed id of 123 written without the "!"; the same id with an
\* empty device_id.
NodeTables == {
    {},
    {[key |-> ForeignId, device_id |-> TeamLead, group |-> <<"t", "\n">>]},
    {[key |-> Tail(convert_numeric_to_id(123)), device_id |-> TeamLead, group |-> None]},
    {[key |-> convert_numeric_to_id(123), device_id |-> None, group |-> None]} }

AppConfigs == [nodes : NodeTables, allow_unknown_devices : BOOLEAN]

\* Config._get_node_mapping: the exact key, else the key without or with "!".
get_node_mapping(cfg, node_id) ==
    LET exact == {e \in cfg.nodes : e.key = node_id}
        other == IF node_id # <<>> /\ Head(node_id) = "!"
                 THEN {e \in cfg.nodes : e.key = Tail(node_id)}
                 ELSE {e \in cfg.nodes : e.key = <<"!">> \o node_id}
        found == IF exact # {} THEN exact ELSE other
    IN IF found = {} THEN NoMapping
       ELSE LET e == CHOOSE x \in found : TRUE
            IN [device_id |-> e.device_id, group |-> e.group, present |-> TRUE]

get_node_device_id(cfg, node_id) == get_node_mapping(cfg, node_id).device_id

\* A variant: the group of whichever node of the table has one.
group_of_any_node(cfg, caltopo, node_id) ==
    LET grouped == {e \in cfg.nodes : e.group # None}
    IN IF grouped # {} THEN (CHOOSE e \in grouped : TRUE).group ELSE caltopo.group

\* Config.get_node_group, with the global group of the CalTopo section.
get_node_group(cfg, caltopo, node_id) ==
    LET m == get_node_mapping(cfg, node_id)
    IN IF m.present /\ m.group # None THEN m.group ELSE caltopo.group

\* GatewayApp.configured_devices: set(config.nodes.keys()).
configured_devices(cfg) == {e.key : e \in cfg.nodes}

\* _resolve_hardware_id.
resolve_hardware_id(cache, numeric_node_id) ==
    IF cache[numeric_node_id] # None THEN cache[numeric_node_id]
    ELSE convert_numeric_to_id(numeric_node_id)

\* A variant: the learned label comes before the configured one.
callsign_cache_first(cfg, cache, hardware_id) ==
    IF cache[hardware_id] # None
    THEN [callsign |-> cache[hardware_id], log |-> ""]
    ELSE [callsign |-> get_node_device_id(cfg, hardware_id), log |-> "configured"]

\* A variant: an unknown device is let through whatever the policy.
callsign_allow_all(cfg, cache, hardware_id) ==
    IF get_node_device_id(cfg, hardware_id) # None
    THEN [callsign |-> get_node_device_id(cfg, hardware_id), log |-> "configured"]
    ELSE IF cache[hardware_id] # None
    THEN [callsign |-> cache[hardware_id], log |-> ""]
    ELSE [callsign |-> hardware_id, log |-> "allowed_unknown"]

\* A variant: a device that is not configured and is allowed gets its own
\* id as label before the cache is looked at.
callsign_synthetic_first(cfg, cache, hardware_id) ==
    IF get_node_device_id(cfg, hardware_id) # None
    THEN [callsign |-> get_node_device_id(cfg, hardware_id), log |-> "configured"]
    ELSE IF hardware_id \notin configured_devices(cfg) /\ cfg.allow_unknown_devices
    THEN [callsign |-> hardware_id, log |-> "allowed_unknown"]
    ELSE IF cache[hardware_id] # None
    THEN [callsign |-> cache[hardware_id], log |-> ""]
    ELSE [callsign |-> None, log |-> "unknown_blocked"]

\* _get_or_create_callsign: the label, None when there is none, and the
\* line it logs.
get_or_create_callsign(cfg, cache, hardware_id) ==
    LET configured_device_id == get_node_device_id(cfg, hardware_id)
        is_unknown_device == hardware_id \notin configured_devices(cfg)
    IN IF configured_device_id # None
       THEN [callsign |-> configured_device_id, log |-> "configured"]
       ELSE IF cache[hardware_id] # None
       THEN [callsign |-> cache[hardware_id], log |-> ""]
       ELSE IF is_unknown_device
       THEN IF cfg.allow_unknown_devices
            THEN [callsign |-> hardware_id, log |-> "allowed_unknown"]
            ELSE [callsign |-> None, log |-> "unknown_blocked"]
       ELSE [callsign |-> None, log |-> "no_callsign"]

\* A variant: the label given to an allowed unknown device is kept in the
\* cache.
synthetic_label_cached(r, cache, hardware_id) ==
    IF r.log = "allowed_unknown" THEN [cache EXCEPT ![hardware_id] = r.callsign]
    ELSE cache

\* The label cache when _get_or_create_callsign has returned r: lines
\* 394-445 read the configuration and the cache and assign to neither.
CallsignCacheAfter(r, cache, hardware_id) == cache

\* The payload of a message: missing or empty, not a JSON object, or an
\* object with the fields the handlers read.
NoPayload == [kind |-> "none", coords |-> FALSE, id |-> None,
              longname |-> None, shortname |-> None]
BadPayload == [NoPayload EXCEPT !.kind = "malformed"]
DictPayload == [NoPayload EXCEPT !.kind = "dict"]

PositionPayloads ==
    {NoPayload, BadPayload, DictPayload, [DictPayload EXCEPT !.coords = TRUE]}

NodeinfoPayloads ==
    {NoPayload, BadPayload}
        \cup {[DictPayload EXCEPT !.id = i, !.longname = n[1], !.shortname = n[2]] :
                 i \in {None, convert_numeric_to_id(123), ForeignId},
                 n \in {<<None, None>>, <<Alice, ShortName>>, <<None, ShortName>>}}

\* The data handed to _process_message. from = 0 with hasFrom is a "from"
\* field that is falsy; type "None" is a missing type.
Messages ==
    [hasFrom : {TRUE}, from : NumericIds, type : {"position"},
     retain : BOOLEAN, payload : PositionPayloads]
    \cup [hasFrom : {TRUE}, from : NumericIds, type : {"nodeinfo"},
          retain : {FALSE}, payload : NodeinfoPayloads]
    \cup [hasFrom : {TRUE}, from : NumericIds, type : {"telemetry", "traceroute"},
          retain : {FALSE}, payload : {NoPayload, BadPayload, DictPayload}]
    \cup [hasFrom : {TRUE}, from : NumericIds, type : {"", "None", "text"},
          retain : {FALSE}, payload : {NoPayload}]
    \cup [hasFrom : {FALSE}, from : {0}, type : {"position", "None"},
          retain : {FALSE}, payload : {[DictPayload EXCEPT !.coords = TRUE]}]
    \cup [hasFrom : {TRUE}, from : {0}, type : {"position"},
          retain : {FALSE}, payload : {[DictPayload EXCEPT !.coords = TRUE]}]

\* No message yet.
NoMessage == [hasFrom |-> FALSE, from |-> 0, type |-> "None",
              retain |-> FALSE, payload |-> NoPayload]

Bump(s, counter) == [s EXCEPT ![counter] = @ + 1]

\* A variant: the value is written without a look at the cache.
persist_always(f, k, v) ==
    [cache |-> [f.cache EXCEPT ![k] = v], store |-> [f.store EXCEPT ![k] = v],
     writes |-> f.writes + 1]

\* A variant: the value is kept in the cache and not written to the store.
persist_cache_only(f, k, v) ==
    IF f.cache[k] = v THEN f
    ELSE [cache |-> [f.cache EXCEPT ![k] = v], store |-> f.store, writes |-> f.writes]

\* _persist_node_id_mapping and _persist_callsign_mapping on a namespace
\* f = [cache, store]: nothing when the cache already holds the value,
\* else the cache and then the store are written.
Persisted(f, k, v) ==
    IF f.cache[k] = v THEN f
    ELSE [cache |-> [f.cache EXCEPT ![k] = v], store |-> [f.store EXCEPT ![k] = v],
          writes |-> f.writes + 1]

\* A variant: the longname of the payload goes before the configured
\* device id.
label_longname_first(cfg, payload) ==
    IF payload.longname # None THEN payload.longname
    ELSE IF get_node_device_id(cfg, payload.id) # None
    THEN get_node_device_id(cfg, payload.id)
    ELSE payload.shortname

\* The label a nodeinfo payload gives to its id, lines 613-642: the
\* configured device id, else the longname, else the shortname, else none.
NodeinfoLabel(cfg, payload) ==
    LET configured_device_id == get_node_device_id(cfg, payload.id)
    IN IF configured_device_id # None THEN configured_device_id
       ELSE IF payload.longname # None THEN payload.longname
       ELSE payload.shortname

\* The message ends in a return inside the try statement of
\* _process_message (lines 352, 369, 376): only messages_received counts.
Dropped(line) ==
    /\ stats' = Bump(stats, "messages_received")
    /\ alog' = line
    /\ handled' = <<>>
    /\ store_writes' = 0
    /\ UNCHANGED <<node_id_mapping, callsign_mapping, node_id_cache,
                   callsign_cache, apc, reports>>

\* A variant: a handler that returns early is not counted as processed.
ReturnedUncounted(type, line) ==
    /\ stats' = Bump(stats, "messages_received")
    /\ alog' = line
    /\ handled' = <<type>>
    /\ store_writes' = 0
    /\ UNCHANGED <<node_id_mapping, callsign_mapping, node_id_cache,
                   callsign_cache, apc, reports>>

\* The handler returns without a write and without a report; line 378
\* counts the message as processed.
Returned(type, line) ==
    /\ stats' = Bump(Bump(stats, "messages_received"), "messages_processed")
    /\ alog' = line
    /\ handled' = <<type>>
    /\ store_writes' = 0
    /\ UNCHANGED <<node_id_mapping, callsign_mapping, node_id_cache,
                   callsign_cache, apc, reports>>

\* A variant: a message whose handler raised is counted as processed too.
raises_counted_processed(type) ==
    /\ stats' = Bump(Bump(Bump(stats, "messages_received"), "errors"),
                     "messages_processed")
    /\ alog' = "error"
    /\ handled' = <<type>>
    /\ store_writes' = 0
    /\ UNCHANGED <<node_id_mapping, callsign_mapping, node_id_cache,
                   callsign_cache, apc, reports>>

\* The handler raises (payload.get on a payload that is no object); the
\* handler at 380-382 logs and counts an error.
Raises(type) ==
    /\ stats' = Bump(Bump(stats, "messages_received"), "errors")
    /\ alog' = "error"
    /\ handled' = <<type>>
    /\ store_writes' = 0
    /\ UNCHANGED <<node_id_mapping, callsign_mapping, node_id_cache,
                   callsign_cache, apc, reports>>

\* A variant: the retain flag is not looked at.
retain_ignored(m) == FALSE

\* Line 489: data.get("_mqtt_retain").
IsRetained(m) == m.retain

\* A variant: the id the message names as its sender is stored.
sender_field_id(m, hardware_id) == ForeignId

\* Line 556: the id stored for a new sender is the resolved one.
PersistedId(m, hardware_id) == hardware_id

\* _process_position_message up to its await of send_position_update.
\* After initialize both namespaces, the reporter and the configuration
\* are set, so the branches at 483-486, 528-531 and 549-550 are not taken.
ProcessPosition(m) ==
    IF IsRetained(m) THEN Returned("position", "retained")
    ELSE IF m.payload.kind = "none" THEN Returned("position", "no_payload")
    ELSE IF m.payload.kind = "malformed" THEN Raises("position")
    ELSE IF ~m.payload.coords THEN Returned("position", "no_coords")
    ELSE
      LET hardware_id == resolve_hardware_id(node_id_cache, m.from)
          is_new_mapping == node_id_cache[m.from] = None
          r == get_or_create_callsign(appConfig, callsign_cache, hardware_id)
          ids == [cache |-> node_id_cache, store |-> node_id_mapping, writes |-> 0]
          ids2 == IF is_new_mapping
                  THEN Persisted(ids, m.from, PersistedId(m, hardware_id))
                  ELSE ids
          node_group == get_node_group(appConfig, config, hardware_id)
          group == IF has_group(config)
                   THEN (IF node_group # None THEN node_group ELSE config.group)
                   ELSE None
      IN IF r.callsign = None
         THEN Returned("position", r.log)
         ELSE /\ node_id_cache' = ids2.cache
              /\ node_id_mapping' = ids2.store
              /\ reports' = Append(reports, [callsign |-> r.callsign,
                                             group |-> group, from |-> m.from])
              /\ apc' = "reporting"
              /\ stats' = Bump(stats, "messages_received")
              /\ alog' = r.log
              /\ handled' = <<"position">>
              /\ store_writes' = ids2.writes
              /\ callsign_cache' = CallsignCacheAfter(r, callsign_cache, hardware_id)
              /\ UNCHANGED callsign_mapping

\* _process_nodeinfo_message.
ProcessNodeinfo(m) ==
    IF m.payload.kind = "none" THEN Returned("nodeinfo", "no_payload")
    ELSE IF m.payload.kind = "malformed" THEN Raises("nodeinfo")
    ELSE
      LET p == m.payload
          ids == [cache |-> node_id_cache, store |-> node_id_mapping, writes |-> 0]
          names == [cache |-> callsign_cache, store |-> callsign_mapping, writes |-> 0]
          ids2 == IF p.id # None THEN Persisted(ids, m.from, p.id) ELSE ids
          label == IF p.id # None THEN NodeinfoLabel(appConfig, p) ELSE None
          names2 == IF label # None THEN Persisted(names, p.id, label) ELSE names
      IN /\ node_id_cache' = ids2.cache
         /\ node_id_mapping' = ids2.store
         /\ callsign_cache' = names2.cache
         /\ callsign_mapping' = names2.store
         /\ stats' = Bump(Bump(stats, "messages_received"), "messages_processed")
         /\ alog' = "nodeinfo"
         /\ handled' = <<"nodeinfo">>
         /\ store_writes' = ids2.writes + names2.writes
         /\ UNCHANGED <<apc, reports>>

\* _process_telemetry_message and _process_traceroute_message.
ProcessDiagnostic(h, m) ==
    IF m.payload.kind = "none" THEN Returned(h, "no_payload")
    ELSE IF m.payload.kind = "malformed" THEN Raises(h)
    ELSE Returned(h, h)

\* A variant: a message without a sender goes on to the handlers.
from_always_given(m) == TRUE

\* Line 350: not numeric_node_id.
HasSender(m) == m.hasFrom /\ m.from # 0

\* A variant: every message is sent to the position handler.
route_all_to_position(m) == "position"

\* A variant: a type that is not recognised is handled as telemetry.
route_default_telemetry(m) ==
    IF m.type \in {"position", "nodeinfo", "traceroute"} THEN m.type ELSE "telemetry"

\* Lines 355-376: the handler a message type is dispatched to.
Route(m) ==
    CASE m.type = "position" -> "position"
      [] m.type = "nodeinfo" -> "nodeinfo"
      [] m.type = "telemetry" -> "telemetry"
      [] m.type = "traceroute" -> "traceroute"
      [] m.type = "" -> "empty_type"
      [] OTHER -> "unsupported_type"

\* _process_message, up to its end or to the await of the report.
Handle(m) ==
    /\ apc = "idle"
    /\ stats["messages_received"] < MaxAppMessages
    /\ IF ~HasSender(m) THEN Dropped("no_from")
       ELSE LET h == Route(m) IN
            CASE h = "position" -> ProcessPosition(m)
              [] h = "nodeinfo" -> ProcessNodeinfo(m)
              [] h \in {"telemetry", "traceroute"} -> ProcessDiagnostic(h, m)
              [] OTHER -> Dropped(h)
    /\ amsg' = m
    /\ UNCHANGED <<appConfig, reporterVars, mqttVars>>

\* The durable write of _persist_node_id_mapping or
\* _persist_callsign_mapping raises (line 327 or 336): the cache was
\* assigned on the line before, and the store is as it was.
PersistRaises(f, k, v) ==
    [cache |-> [f.cache EXCEPT ![k] = v], store |-> f.store, writes |-> f.writes + 1]

\* _process_message for a message whose handler persists a mapping, when
\* a durable write raises: the first one the handler issues, or the second
\* after the first went through. The exception leaves the handler and is
\* counted at 380-382; the position handler does not reach the reporter.
WriteFails(m, second) ==
    /\ apc = "idle"
    /\ stats["messages_received"] < MaxAppMessages
    /\ HasSender(m)
    /\ m.payload.kind = "dict"
    /\ LET ids == [cache |-> node_id_cache, store |-> node_id_mapping, writes |-> 0]
           names == [cache |-> callsign_cache, store |-> callsign_mapping, writes |-> 0]
       IN \/ /\ Route(m) = "position" /\ ~IsRetained(m) /\ m.payload.coords
             /\ ~second
             /\ LET hardware_id == resolve_hardware_id(node_id_cache, m.from)
                    r == get_or_create_callsign(appConfig, callsign_cache, hardware_id)
                    ids2 == PersistRaises(ids, m.from, PersistedId(m, hardware_id))
                IN /\ node_id_cache[m.from] = None
                   /\ r.callsign # None
                   /\ node_id_cache' = ids2.cache
                   /\ node_id_mapping' = ids2.store
                   /\ store_writes' = ids2.writes
                   /\ UNCHANGED <<callsign_cache, callsign_mapping>>
          \/ /\ Route(m) = "nodeinfo" /\ m.payload.id # None
             /\ LET p == m.payload
                    label == NodeinfoLabel(appConfig, p)
                    idsOk == Persisted(ids, m.from, p.id)
                IN IF ~second /\ idsOk.writes = 1
                   THEN /\ node_id_cache' = PersistRaises(ids, m.from, p.id).cache
                        /\ store_writes' = 1
                        /\ UNCHANGED <<node_id_mapping, callsign_cache, callsign_mapping>>
                   ELSE /\ second = (idsOk.writes = 1)
                        /\ label # None /\ callsign_cache[p.id] # label
                        /\ node_id_cache' = idsOk.cache
                        /\ node_id_mapping' = idsOk.store
                        /\ callsign_cache' = PersistRaises(names, p.id, label).cache
                        /\ store_writes' = idsOk.writes + 1
                        /\ UNCHANGED callsign_mapping
    /\ stats' = Bump(Bump(stats, "messages_received"), "errors")
    /\ alog' = "error"
    /\ handled' = <<Route(m)>>
    /\ amsg' = m
    /\ UNCHANGED <<apc, reports, appConfig, reporterVars, mqttVars, auxVars>>

\* The subscriber hands a message to _process_message.
AppMessage(m) == Handle(m) /\ UNCHANGED auxVars

\* No message has come from the broker.
PipeIdle ==
    /\ inbox = <<>>
    /\ arrived = 0
    /\ order = <<>>
    /\ reportOrder = <<>>

\* The broker delivers a message: the MQTT library queues it in
\* client.messages, whatever the loop of run is doing.
Enqueue(m) ==
    /\ arrived < MaxAppMessages
    /\ arrived' = arrived + 1
    /\ inbox' = Append(inbox, [seq |-> arrived + 1, m |-> m])
    /\ UNCHANGED <<order, reportOrder, reporterVars, mqttVars, appVars,
                   hexVars, dictVars, bootVars, legacyVars>>

\* A variant: the newest queued message is taken first.
newest_first(q) == Len(q)

\* mqtt_client.py:86: the async iterator gives the oldest queued message.
NextIndex(q) == 1

\* mqtt_client.py:86-87 and 129-130: the loop takes the next message and
\* awaits _process_message and, in it, the callback; it takes no message
\* while a callback is awaited.
Take ==
    /\ inbox # <<>>
    /\ LET i == NextIndex(inbox) IN
          /\ Handle(inbox[i].m)
          /\ inbox' = SubSeq(inbox, 1, i - 1) \o SubSeq(inbox, i + 1, Len(inbox))
          /\ order' = Append(order, inbox[i].seq)
          /\ reportOrder' = IF Len(reports') > Len(reports)
                            THEN Append(reportOrder, inbox[i].seq) ELSE reportOrder
    /\ UNCHANGED <<arrived, hexVars, dictVars, bootVars, legacyVars>>

\* A variant: a report that failed is counted as sent as well.
counted_sent_always(s, success) ==
    IF success THEN Bump(s, "position_updates_sent")
    ELSE Bump(Bump(s, "position_updates_sent"), "errors")

\* Lines 567-570: the counter that follows the reporter's result.
Counted(s, success) ==
    Bump(s, IF success THEN "position_updates_sent" ELSE "errors")

\* send_position_update returns: lines 567-570, then line 378.
ReportReturns(success) ==
    /\ apc = "reporting"
    /\ stats' = Bump(Counted(stats, success), "messages_processed")
    /\ apc' = "idle"
    /\ UNCHANGED <<appConfig, node_id_mapping, callsign_mapping, node_id_cache,
                   callsign_cache, reports, handled, alog, amsg, store_writes,
                   reporterVars, mqttVars, auxVars>>

\* The subscriber task is cancelled during the report: CancelledError is
\* no Exception, the handler at 380 does not see it.
ReportCancelled ==
    /\ apc = "reporting"
    /\ apc' = "cancelled"
    /\ UNCHANGED <<appConfig, node_id_mapping, callsign_mapping, node_id_cache,
                   callsign_cache, stats, reports, handled, alog, amsg, store_writes,
                   reporterVars, mqttVars, auxVars>>

NoStats == [c \in {"messages_received", "messages_processed",
                   "position_updates_sent", "errors"} |-> 0]

\* What the durable store holds when initialize loads it: nothing, or the
\* mappings an earlier run learned from a nodeinfo message of 123.
InitialStores == {
    [ids |-> [n \in Senders |-> None], names |-> [h \in HwIds |-> None]],
    [ids |-> [n \in Senders |-> IF n = 123 THEN ForeignId ELSE None],
     names |-> [h \in HwIds |-> IF h = ForeignId THEN Alice ELSE None]] }

\* GatewayApp before initialize: __init__, lines 34-60.
AppIdle ==
    /\ appConfig = [nodes |-> {}, allow_unknown_devices |-> TRUE]
    /\ node_id_mapping = [n \in Senders |-> None]
    /\ callsign_mapping = [h \in HwIds |-> None]
    /\ node_id_cache = [n \in Senders |-> None]
    /\ callsign_cache = [h \in HwIds |-> None]
    /\ stats = NoStats
    /\ apc = "idle"
    /\ reports = <<>>
    /\ handled = <<>>
    /\ alog = ""
    /\ amsg = NoMessage
    /\ store_writes = 0

\* GatewayApp after initialize returned True: the configuration is loaded
\* and both caches are copies of their namespaces, lines 72-117.
AppInitialized ==
    /\ appConfig \in AppConfigs
    /\ \E s \in InitialStores :
          /\ node_id_mapping = s.ids
          /\ callsign_mapping = s.names
          /\ node_id_cache = s.ids
          /\ callsign_cache = s.names
    /\ stats = NoStats
    /\ apc = "idle"
    /\ reports = <<>>
    /\ handled = <<>>
    /\ alog = ""
    /\ amsg = NoMessage
    /\ store_writes = 0

\* What a namespace of the state file holds: no row, rows this version
\* wrote, or rows of an older format that the decoder rejects.
NsStates == {"empty", "rows", "legacy"}

NoFile == [exists |-> FALSE, valid |-> TRUE, ids |-> "empty", names |-> "empty"]
FreshFile == [NoFile EXCEPT !.exists = TRUE]

\* The state file when the gateway starts: absent, not an SQLite
\* database, or a database with its two tables.
DbFiles ==
    {NoFile, [FreshFile EXCEPT !.valid = FALSE]}
        \cup {[FreshFile EXCEPT !.ids = i, !.names = n] : i, n \in NsStates}

\* The rows of a table, as dict(...) loads them.
StoredIds(ns) == [n \in Senders |-> IF ns = "rows" /\ n = 123 THEN ForeignId ELSE None]
StoredNames(ns) == [h \in HwIds |-> IF ns = "rows" /\ h = ForeignId THEN Alice ELSE None]

\* The statement of the try block at 93-117 that raises: the first
\* SqliteDict(...) on a file that is no database, or the dict(...) that
\* decodes the rows of a table.
FaultAt(f) ==
    IF f.exists /\ ~f.valid THEN "open_node_id_mapping"
    ELSE IF f.ids = "legacy" THEN "load_node_id_mapping"
    ELSE IF f.names = "legacy" THEN "load_callsign_mapping"
    ELSE "none"

Handle_(table_name, ns) == [table |-> table_name, ns |-> ns, state |-> "open"]

\* The handles that lines 94 and 105 have bound when the fault occurs.
OpenedBefore(f) ==
    IF FaultAt(f) = "open_node_id_mapping" THEN <<>>
    ELSE <<Handle_("node_id_mapping", f.ids), Handle_("callsign_mapping", f.names)>>

\* "if self.node_id_mapping:" (lines 125, 130, 288, 290): a mapping
\* object is true when it has rows.
Truthy(h) == h.ns # "empty"

\* Lines 125-134 and 288-291: close() is called on a handle that is true.
CloseIfTruthy(h) == IF Truthy(h) THEN [h EXCEPT !.state = "closed"] ELSE h

\* Lines 147 and 154 bind new objects: a handle that was not closed is
\* let go as it is.
LetGo(h) == IF h.state = "open" THEN [h EXCEPT !.state = "dropped"] ELSE h

\* start() has not been called: no task, no stop event, no HTTP client.
NotStarted == [start |-> "new", stop_event |-> FALSE, stats_task |-> "none",
               http_client |-> "None"]

\* GatewayApp is constructed and the state file is as the last run, or
\* someone else, left it.
BootIdle ==
    /\ db_file = NoFile
    /\ handles = <<>>
    /\ init_result = "none"
    /\ store_fault = "none"
    /\ lifecycle = NotStarted

\* initialize(), lines 62-204, with the configuration Config.from_file
\* gives, or its failure, and with os.remove succeeding or raising OSError
\* (which line 143 logs). When the file stays, the second round of opening
\* and loading meets the same fault outside the inner try, and the outer
\* handler at 202 returns False. The reporter and the subscriber are built
\* as in the other specifications.
Initialize(cfg, config_ok, removable) ==
    /\ init_result = "none"
    /\ IF ~config_ok
       THEN /\ init_result' = "False"
            /\ UNCHANGED <<appConfig, db_file, handles, store_fault, node_id_mapping,
                           callsign_mapping, node_id_cache, callsign_cache>>
       ELSE IF FaultAt(db_file) = "none"
       THEN /\ appConfig' = cfg
            /\ db_file' = [db_file EXCEPT !.exists = TRUE]
            /\ handles' = << Handle_("node_id_mapping", db_file.ids),
                             Handle_("callsign_mapping", db_file.names) >>
            /\ node_id_mapping' = StoredIds(db_file.ids)
            /\ callsign_mapping' = StoredNames(db_file.names)
            /\ node_id_cache' = node_id_mapping'
            /\ callsign_cache' = callsign_mapping'
            /\ init_result' = "True"
            /\ UNCHANGED store_fault
       ELSE IF ~removable
       THEN LET old == OpenedBefore(db_file)
                closed == [i \in 1..Len(old) |-> LetGo(CloseIfTruthy(old[i]))]
            IN /\ appConfig' = cfg
               /\ handles' = closed \o OpenedBefore(db_file)
               /\ node_id_cache' =
                     IF FaultAt(db_file) = "load_callsign_mapping"
                     THEN StoredIds(db_file.ids) ELSE node_id_cache
               /\ init_result' = "False"
               /\ store_fault' = FaultAt(db_file)
               /\ UNCHANGED <<db_file, node_id_mapping, callsign_mapping,
                              callsign_cache>>
       ELSE LET old == OpenedBefore(db_file)
                closed == [i \in 1..Len(old) |-> LetGo(CloseIfTruthy(old[i]))]
            IN /\ appConfig' = cfg
               /\ db_file' = FreshFile
               /\ handles' = closed \o << Handle_("node_id_mapping", "empty"),
                                           Handle_("callsign_mapping", "empty") >>
               /\ node_id_mapping' = StoredIds("empty")
               /\ callsign_mapping' = StoredNames("empty")
               /\ node_id_cache' = node_id_mapping'
               /\ callsign_cache' = callsign_mapping'
               /\ init_result' = "True"
               /\ store_fault' = FaultAt(db_file)
    /\ lifecycle' = [lifecycle EXCEPT !.http_client =
                        IF init_result' = "True" THEN "open" ELSE @]
    /\ UNCHANGED <<stats, apc, reports, handled, alog, amsg, store_writes,
                   reporterVars, mqttVars, hexVars, dictVars, pipeVars, legacyVars>>

\* close(), lines 285-291.
AppClose ==
    /\ init_result # "none"
    /\ \E i \in 1..Len(handles) : handles[i].state = "open"
    /\ handles' = [i \in 1..Len(handles) |->
                      IF handles[i].state = "open" THEN CloseIfTruthy(handles[i])
                      ELSE handles[i]]
    /\ handles' # handles
    /\ UNCHANGED <<db_file, init_result, store_fault, lifecycle, appVars,
                   reporterVars, mqttVars, hexVars, dictVars, pipeVars, legacyVars>>

\* The frame of a step of start() and stop().
LifecycleFrame ==
    UNCHANGED <<db_file, init_result, store_fault, appVars, reporterVars, mqttVars,
                hexVars, dictVars, pipeVars, legacyVars>>

\* start(), lines 211-234: initialize returned True and the two tasks are
\* created; start waits for the stop event at 240 and the statistics task
\* sleeps at 259. When initialize returned False, sys.exit(1) at 213
\* raises SystemExit, which leaves through the finally clause.
StartTasks ==
    /\ lifecycle.start = "new"
    /\ init_result # "none"
    /\ lifecycle' = IF init_result = "True"
                    THEN [lifecycle EXCEPT !.start = "waiting", !.stats_task = "sleeping"]
                    ELSE [lifecycle EXCEPT !.start = "stopping"]
    /\ UNCHANGED handles
    /\ LifecycleFrame

\* A handler persists the first mapping of a namespace (lines 327, 336)
\* while the subscriber awaits the callback.
FirstRow(i) ==
    /\ mpc = "callback"
    /\ i \in 1..Len(handles)
    /\ i > Len(handles) - 2
    /\ handles[i].state = "open" /\ handles[i].ns = "empty"
    /\ handles' = [handles EXCEPT ![i].ns = "rows"]
    /\ UNCHANGED lifecycle
    /\ LifecycleFrame

\* Something sets the stop event once the tasks are running.
SetStopEvent ==
    /\ lifecycle.start = "waiting"
    /\ mpc # "off"
    /\ ~lifecycle.stop_event
    /\ lifecycle' = [lifecycle EXCEPT !.stop_event = TRUE]
    /\ UNCHANGED handles
    /\ LifecycleFrame

\* Lines 240-247: the wait returns, both tasks are cancelled and start
\* awaits them. The statistics task finds the CancelledError at its sleep.
CancelTasks ==
    /\ lifecycle.start = "waiting"
    /\ lifecycle.stop_event
    /\ lifecycle' = [lifecycle EXCEPT !.start = "gathering", !.stats_task = "cancelled"]
    /\ UNCHANGED handles
    /\ LifecycleFrame

\* Line 247: gather has the result of both tasks.
TasksEnded ==
    /\ lifecycle.start = "gathering"
    /\ mpc \in {"cancelled", "returned"}
    /\ lifecycle.stats_task = "cancelled"
    /\ lifecycle' = [lifecycle EXCEPT !.start = "stopping"]
    /\ UNCHANGED handles
    /\ LifecycleFrame

\* stop(), lines 262-283, from the finally clause at 254: the event is
\* set, the reporter is closed (it does not own the shared client,
\* caltopo_reporter.py:431), the shared client is closed, and close()
\* closes the handles that are true.
Stop ==
    /\ lifecycle.start = "stopping"
    /\ lifecycle' = [lifecycle EXCEPT !.start = "stopped", !.stop_event = TRUE,
                        !.http_client = IF @ = "open" THEN "closed" ELSE @]
    /\ handles' = [i \in 1..Len(handles) |->
                      IF handles[i].state = "open" THEN CloseIfTruthy(handles[i])
                      ELSE handles[i]]
    /\ LifecycleFrame

(***************************************************************************)
(* The callback-based MqttClient (src/mqtt_client.py)                      *)
(***************************************************************************)
max_reconnect_attempts == 10
reconnect_delay == 1
max_delay == 60

\* __init__, lines 27-32: no reconnection was attempted.
LegacyIdle ==
    legacy = [pc |-> "idle", reconnect_attempts |-> 0, waits |-> <<>>,
              reconnects |-> 0, all_failed |-> TRUE]

\* A variant: the limit is passed before the client gives up.
past_limit(attempts) == attempts > max_reconnect_attempts

\* Line 176: reconnect_attempts >= max_reconnect_attempts.
AtLimit(attempts) == attempts >= max_reconnect_attempts

\* Line 181: min(reconnect_delay * 2 ** (reconnect_attempts - 1), 60).
Delay(attempts) == Min(reconnect_delay * Pow2(attempts - 1), max_delay)

LegacyFrame == UNCHANGED <<reporterVars, mqttVars, appVars, hexVars, dictVars,
                           pipeVars, bootVars>>

\* connect() succeeds: line 74 sets the count of attempts back to 0.
LegacyConnect ==
    /\ legacy.pc = "idle"
    /\ legacy.reconnect_attempts > 0
    /\ legacy' = [legacy EXCEPT !.reconnect_attempts = 0]
    /\ LegacyFrame

\* _on_disconnect, lines 117-131: a disconnection that was not asked for
\* calls _attempt_reconnect.
OnDisconnect(rc) ==
    /\ legacy.pc = "idle"
    /\ legacy' = IF rc # 0
                 THEN [legacy EXCEPT !.pc = "attempt", !.waits = <<>>,
                                     !.reconnects = 0, !.all_failed = TRUE]
                 ELSE legacy
    /\ rc # 0
    /\ LegacyFrame

\* _attempt_reconnect, lines 176-185: at the limit it returns, and with it
\* every call that called it; else it counts the attempt and sleeps.
AttemptReconnect ==
    /\ legacy.pc = "attempt"
    /\ legacy' = IF AtLimit(legacy.reconnect_attempts)
                 THEN [legacy EXCEPT !.pc = "idle"]
                 ELSE [legacy EXCEPT
                          !.pc = "sleeping",
                          !.reconnect_attempts = @ + 1,
                          !.waits = Append(@, [attempt |-> legacy.reconnect_attempts + 1,
                                               delay |-> Delay(legacy.reconnect_attempts + 1)])]
    /\ LegacyFrame

\* Lines 185-192: the sleep ends; client.reconnect() returns, is skipped
\* because there is no client, or raises, and then _attempt_reconnect
\* calls itself.
Reconnect(outcome) ==
    /\ legacy.pc = "sleeping"
    /\ legacy' = CASE outcome = "raises" ->
                        [legacy EXCEPT !.pc = "attempt", !.reconnects = @ + 1]
                   [] outcome = "returns" ->
                        [legacy EXCEPT !.pc = "idle", !.reconnects = @ + 1,
                                       !.all_failed = FALSE]
                   [] OTHER ->
                        [legacy EXCEPT !.pc = "idle", !.all_failed = FALSE]
    /\ LegacyFrame

\* The parts of the program a specification leaves as they were built.
AuxIdle == HexIdle /\ DictIdle /\ PipeIdle /\ BootIdle /\ LegacyIdle

Init ==
    /\ \/ /\ env = DefaultEnv
          /\ \E raw \in RawConfigs : config = ConfigOf(raw)
          /\ clientGiven = TRUE
       \/ /\ env \in Envs
          /\ config = ConfigOf(KeyOnlyRawConfig)
          /\ clientGiven \in BOOLEAN
    /\ classState = "loading"
    /\ BASE_URL = <<>>
    /\ startFailed = FALSE
    /\ client = "None"
    /\ rpc = "new"
    /\ rresult = FALSE
    /\ task = [d \in Dest |-> NoTask]
    /\ calls = [d \in Dest |-> 0]
    /\ lastResp = [d \in Dest |-> NoResp]
    /\ all5xx = [d \in Dest |-> TRUE]
    /\ got2xx = [d \in Dest |-> FALSE]
    /\ log = {}
    /\ MqttIdle
    /\ AppIdle
    /\ AuxIdle

Next ==
    \/ ClassBody
    \/ Construct
    \/ \E works \in BOOLEAN : Start(works)
    \/ \E g \in NodeGroups, works \in BOOLEAN : SendPositionUpdate(g, works)
    \/ \E d \in Dest : TaskStart(d)
    \/ \E d \in Dest, o \in Outcomes : GetReturns(d, o)
    \/ \E d \in Dest : SleepDone(d)
    \/ GatherDone
    \/ ReporterCancel
    \/ CancelDone

Spec == Init /\ [][Next]_vars

\* The reporter is left as constructed while the subscriber runs.
ReporterIdle ==
    /\ env = DefaultEnv
    /\ classState = "loading"
    /\ BASE_URL = <<>>
    /\ config = ConfigOf(KeyOnlyRawConfig)
    /\ clientGiven = TRUE
    /\ startFailed = FALSE
    /\ client = "None"
    /\ rpc = "new"
    /\ rresult = FALSE
    /\ task = [d \in Dest |-> NoTask]
    /\ calls = [d \in Dest |-> 0]
    /\ lastResp = [d \in Dest |-> NoResp]
    /\ all5xx = [d \in Dest |-> TRUE]
    /\ got2xx = [d \in Dest |-> FALSE]
    /\ log = {}

InitMqtt == ReporterIdle /\ MqttIdle /\ AppIdle /\ AuxIdle

NextMqtt ==
    \/ MqttRun
    \/ ConnectOk
    \/ \E f \in MqttFaults : ConnectFails(f)
    \/ SubscribeOk
    \/ \E f \in MqttFaults : SubscribeFails(f)
    \/ \E f \in MqttFaults \cup {"end"} : Disconnect(f)
    \/ \E p \in Payloads, r \in BOOLEAN : MessageArrives(p, r)
    \/ \E exc \in CallbackFaults \cup {"none"} : CallbackEnds(exc)
    \/ MqttSleepDone
    \/ MqttCancel

SpecMqtt == InitMqtt /\ [][NextMqtt]_vars

\* asyncio.sleep returns unless the task is cancelled first.
SpecMqttFair == SpecMqtt /\ WF_vars(MqttSleepDone)

\* The gateway with its reporter constructed on the shared client and the
\* subscriber not modelled: the messages are handed to _process_message one
\* at a time, as MqttClient.run awaits each callback before the next. The
\* connect_key destination goes with every node table, the group
\* destination with the tables that name a group.
GroupOnlyRawConfig == [connect_key |-> <<>>, group |-> <<"k", "_", "1">>]

\* The node tables that give a node a group of its own.
GroupedNodeTables == {nt \in NodeTables : \E e \in nt : e.group # None}

AppBuilt ==
    /\ env = DefaultEnv
    /\ classState = "loading"
    /\ BASE_URL = <<>>
    /\ clientGiven = TRUE
    /\ startFailed = FALSE
    /\ client = "None"
    /\ rpc = "new"
    /\ rresult = FALSE
    /\ task = [d \in Dest |-> NoTask]
    /\ calls = [d \in Dest |-> 0]
    /\ lastResp = [d \in Dest |-> NoResp]
    /\ all5xx = [d \in Dest |-> TRUE]
    /\ got2xx = [d \in Dest |-> FALSE]
    /\ log = {}
    /\ MqttIdle
    /\ AppInitialized
    /\ AuxIdle

InitApp ==
    /\ AppBuilt
    /\ \/ config = ConfigOf(KeyOnlyRawConfig)
       \/ /\ config = ConfigOf(GroupOnlyRawConfig)
          /\ appConfig.nodes \in GroupedNodeTables

\* The gateway configured with both destinations and a node table that
\* gives one node a group of its own.
BothRawConfig == [connect_key |-> <<"k", "_", "1">>, group |-> <<"b", "1">>]

InitGroup ==
    /\ AppBuilt
    /\ config = ConfigOf(BothRawConfig)
    /\ appConfig.nodes \in GroupedNodeTables

NextApp ==
    \/ \E m \in Messages : AppMessage(m)
    \/ \E success \in BOOLEAN : ReportReturns(success)
    \/ ReportCancelled

SpecApp == InitApp /\ [][NextApp]_vars

SpecGroup == InitGroup /\ [][NextApp]_vars

\* The messages of a gateway whose state file may refuse a write.
FaultyMessages ==
    {m \in Messages :
        /\ m.hasFrom /\ m.from \in NumericIds /\ ~m.retain
        /\ \/ m.type = "position" /\ m.payload = [DictPayload EXCEPT !.coords = TRUE]
           \/ m.type = "nodeinfo" /\ m.from = 123
                /\ m.payload.kind = "dict" /\ m.payload.id = ForeignId}

\* The gateway as in SpecApp, on a store whose writes may raise.
NextAppFaulty ==
    \/ \E m \in FaultyMessages : AppMessage(m)
    \/ \E m \in FaultyMessages, second \in BOOLEAN : WriteFails(m, second)
    \/ \E success \in BOOLEAN : ReportReturns(success)

SpecAppFaulty == InitApp /\ [][NextAppFaulty]_vars

\* The messages the broker delivers to the pipeline: positions of two
\* senders, a nodeinfo message and a telemetry message.
PipeMessages ==
    {m \in Messages :
        /\ m.hasFrom /\ m.from \in NumericIds /\ ~m.retain
        /\ \/ m.type = "position" /\ m.payload = [DictPayload EXCEPT !.coords = TRUE]
           \/ m.type = "nodeinfo" /\ m.from = 123
                /\ m.payload = [DictPayload EXCEPT !.id = ForeignId,
                                    !.longname = Alice, !.shortname = ShortName]
           \/ m.type = "telemetry" /\ m.from = 123 /\ m.payload = DictPayload}

\* The subscriber's loop and the gateway together: messages queue up as
\* the broker delivers them and are taken one at a time.
NextPipe ==
    \/ \E m \in PipeMessages : Enqueue(m)
    \/ Take
    \/ \E success \in BOOLEAN : ReportReturns(success)

SpecPipe == InitApp /\ [][NextPipe]_vars

\* The loop of run goes on whenever it can; nothing is assumed about how
\* long a destination takes to answer.
SpecPipeFair == SpecPipe /\ WF_vars(Take)

\* _convert_numeric_to_id alone, applied to one integer after another.
InitHex ==
    /\ ReporterIdle /\ MqttIdle /\ AppIdle /\ DictIdle /\ PipeIdle /\ BootIdle
    /\ LegacyIdle
    /\ int_val \in HexInputs
    /\ hex_id = <<>>
    /\ earlier = NoCall

NextHex ==
    \/ Convert
    \/ \E n \in HexInputs : ConvertNext(n)

SpecHex == InitHex /\ [][NextHex]_vars

\* The start of the gateway on the state file it finds.
InitBoot ==
    /\ ReporterIdle /\ MqttIdle /\ AppIdle /\ HexIdle /\ DictIdle /\ PipeIdle
    /\ LegacyIdle
    /\ db_file \in DbFiles
    /\ handles = <<>>
    /\ init_result = "none"
    /\ store_fault = "none"
    /\ lifecycle = NotStarted

NextBoot ==
    \/ \E cfg \in AppConfigs, ok, removable \in BOOLEAN : Initialize(cfg, ok, removable)
    \/ AppClose

SpecBoot == InitBoot /\ [][NextBoot]_vars

\* The state files of a gateway that is started and stopped: none yet,
\* one with both mappings of an earlier run, one with node ids only.
StopFiles ==
    {NoFile, [FreshFile EXCEPT !.ids = "rows", !.names = "rows"],
     [FreshFile EXCEPT !.ids = "rows"]}

InitStop ==
    /\ ReporterIdle /\ MqttIdle /\ AppIdle /\ HexIdle /\ DictIdle /\ PipeIdle
    /\ LegacyIdle
    /\ db_file \in StopFiles
    /\ handles = <<>>
    /\ init_result = "none"
    /\ store_fault = "none"
    /\ lifecycle = NotStarted

\* start() from its call to the end of stop(), with the subscriber task
\* running in between and cancelled at line 243.
NextStop ==
    \/ \E ok \in BOOLEAN : Initialize(appConfig, ok, TRUE)
    \/ StartTasks
    \/ lifecycle.start = "waiting" /\ MqttRun
    \/ lifecycle.start = "waiting" /\ ConnectOk
    \/ lifecycle.start = "waiting" /\ \E f \in MqttFaults : ConnectFails(f)
    \/ lifecycle.start = "waiting" /\ SubscribeOk
    \/ lifecycle.start = "waiting" /\ \E f \in MqttFaults \cup {"end"} : Disconnect(f)
    \/ lifecycle.start = "waiting" /\ \E r \in BOOLEAN : MessageArrives("json_object", r)
    \/ lifecycle.start = "waiting" /\ CallbackEnds("none")
    \/ lifecycle.start = "waiting" /\ MqttSleepDone
    \/ \E i \in 1..2 : FirstRow(i)
    \/ SetStopEvent
    \/ CancelTasks
    \/ lifecycle.start = "gathering" /\ MqttCancel
    \/ TasksEnded
    \/ Stop

SpecStop == InitStop /\ [][NextStop]_vars

\* The event loop runs start() when its wait or its gather is over, and
\* delivers the cancellation to the subscriber task.
SpecStopFair ==
    /\ SpecStop
    /\ WF_vars(CancelTasks)
    /\ WF_vars(lifecycle.start = "gathering" /\ MqttCancel)
    /\ WF_vars(TasksEnded)
    /\ WF_vars(Stop)

\* The callback-based client through its disconnections.
InitLegacy ==
    /\ ReporterIdle /\ MqttIdle /\ AppIdle /\ HexIdle /\ DictIdle /\ PipeIdle
    /\ BootIdle /\ LegacyIdle

NextLegacy ==
    \/ LegacyConnect
    \/ \E rc \in {1, 7} : OnDisconnect(rc)
    \/ AttemptReconnect
    \/ \E outcome \in {"raises", "returns", "no_client"} : Reconnect(outcome)

SpecLegacy == InitLegacy /\ [][NextLegacy]_vars

\* One PersistentDict on one file, opened, used, closed and opened again.
InitDict ==
    /\ ReporterIdle /\ MqttIdle /\ AppIdle /\ HexIdle /\ DictIdle /\ PipeIdle
    /\ BootIdle /\ LegacyIdle

NextDict ==
    \/ \E ac \in BOOLEAN : Open(ac)
    \/ \E k \in DictKeys : GetItem(k)
    \/ \E k \in DictKeys, v \in DictValues : SetItem(k, v)
    \/ \E k \in DictKeys : DelItem(k)
    \/ Close
    \/ \E k \in DictKeys, t \in BadTexts : ForeignWrite(k, t)

SpecDict == InitDict /\ [][NextDict]_vars

(***************************************************************************)
(* Properties of the reporter                                              *)
(***************************************************************************)
Configured(d) == task[d].pc # "none"

\* C1: send_position_update returns true if and only if at least one
\* configured destination answered with an HTTP 2xx status within its retry
\* budget; with no destination it returns false.
C1_TrueIffSomeDestinationAnswered2xx ==
    rpc = "returned" => (rresult <=> \E d \in Dest : Configured(d) /\ got2xx[d])

\* C2: a delivery whose every attempt is answered with HTTP 5xx makes
\* exactly 4 calls and then fails: never a fifth call, never a stop before
\* the fourth (short of a cancellation of the task, which is C30).
C2_All5xxMakesExactlyFourCalls ==
    \A d \in Dest :
        /\ calls[d] <= 4
        /\ (all5xx[d] /\ calls[d] >= 1 /\ calls[d] < 4)
               => task[d].pc \in {"get", "sleep", "cancelled"}
        /\ (all5xx[d] /\ task[d].pc = "done" /\ calls[d] >= 1)
               => (calls[d] = 4 /\ ~task[d].result)

C2_Witness ==
    \E d \in Dest : all5xx[d] /\ task[d].pc = "done" /\ calls[d] = 4

FatalStatus(o) ==
    /\ o.exc = ""
    /\ o.code # 0
    /\ ~(200 <= o.code /\ o.code <= 299)
    /\ ~(500 <= o.code /\ o.code <= 599)
    /\ o.code # 429

\* C3: an answer with a non-2xx status that is neither 5xx nor 429 ends the
\* delivery at once with failure: no backoff wait and no further call to
\* that destination follow, whatever retry budget remains.
C3_FatalStatusEndsDelivery ==
    /\ [](\A d \in Dest : FatalStatus(lastResp[d])
              => (task[d].pc = "done" /\ ~task[d].result))
    /\ [][\A d \in Dest : FatalStatus(lastResp[d])
              => (calls'[d] = calls[d] /\ task'[d].pc # "sleep")]_vars

C3_Witness ==
    \E d \in Dest : /\ lastResp[d].exc = "" /\ lastResp[d].code = 404
                    /\ task[d].attempt = 1 /\ task[d].pc = "done"

\* The delivery goes on after the latest outcome, or has used all 4
\* attempts, or was cancelled on its way.
RetriedOrExhausted(d) ==
    \/ task[d].pc \in {"sleep", "get", "cancelled"} /\ calls[d] <= 4
    \/ task[d].pc = "done" /\ calls[d] = 4 /\ ~task[d].result

Accepted(o) == o.exc = "" /\ o.code = 200

\* C4: an attempt that ends in a network or timeout error is retried (up to
\* 4 attempts in all), for every kind of network or timeout error the HTTP
\* client can raise, and the delivery succeeds if a later attempt is accepted.
C4_EveryNetworkErrorIsRetried ==
    \A d \in Dest :
        /\ (lastResp[d].exc # "" /\ ( \/ IsInstance(lastResp[d].exc, "NetworkError")
                                      \/ IsInstance(lastResp[d].exc, "TimeoutException")))
               => RetriedOrExhausted(d)
        /\ Accepted(lastResp[d]) => (task[d].pc = "done" /\ task[d].result)

\* C4 as amended: the errors retried are httpx.ConnectError and
\* httpx.TimeoutException (and their subclasses); any other exception of the
\* HTTP client, other network errors such as ReadError included, ends the
\* delivery at once with failure.
C4_ConnectAndTimeoutErrorsAreRetried ==
    \A d \in Dest :
        /\ (lastResp[d].exc # "" /\ ( \/ IsInstance(lastResp[d].exc, "ConnectError")
                                      \/ IsInstance(lastResp[d].exc, "TimeoutException")))
               => RetriedOrExhausted(d)
        /\ (lastResp[d].exc # "" /\ ~IsInstance(lastResp[d].exc, "ConnectError")
                                 /\ ~IsInstance(lastResp[d].exc, "TimeoutException"))
               => (task[d].pc = "done" /\ ~task[d].result)
        /\ Accepted(lastResp[d]) => (task[d].pc = "done" /\ task[d].result)

C4_Witness ==
    /\ rpc = "returned" /\ rresult
    /\ ~Configured("group")
    /\ task["connect_key"].attempt = 3
    /\ log = { LogRec("sending", "connect_key", Redacted),
               LogRec("conn_retry", "connect_key", <<>>),
               LogRec("retrying_in", "", <<>>),
               LogRec("sent", "connect_key", <<>>) }

\* C5: send_position_update never raises, whatever the outcomes of its
\* deliveries and also when the HTTP client is not initialised.
C5_NeverRaises == rpc # "raised"

\* C5 as amended: send_position_update raises (RuntimeError) only when
\* start() has left the client uninitialised, and then before any delivery
\* is started; once deliveries are started it ends by returning a boolean,
\* whatever their outcomes (short of a cancellation of the task, which is
\* C30).
C5_RaisesOnlyWithoutClient ==
    /\ rpc = "raised"
           => (startFailed /\ client = "None" /\ \A d \in Dest : ~Configured(d))
    /\ (\E d \in Dest : Configured(d))
           => rpc \in {"gather", "returned", "cancelling", "cancelled"}
    /\ (rpc = "gather" /\ \A d \in Dest : task[d].pc \in {"none", "done"})
           => ENABLED GatherDone
    /\ rpc = "returned" => rresult \in BOOLEAN

C5_Witness ==
    /\ rpc = "returned" /\ ~rresult
    /\ lastResp["connect_key"].exc = "Exception"
    /\ task["group"].pc = "done" /\ calls["group"] = 0

\* C6: an identifier that does not consist only of alphanumeric characters
\* and underscores is rejected locally: its delivery fails with no HTTP call
\* made, and the other destination is still attempted.
C6_InvalidIdentifierMakesNoCall ==
    \A d \in Dest :
        (Configured(d) /\ ~(\A i \in 1..Len(task[d].ident) :
                               task[d].ident[i] \in WordChars))
            => /\ calls[d] = 0
               /\ task[d].pc = "done" => ~task[d].result
               /\ \A e \in Dest \ {d} : rpc = "returned" /\ Configured(e)
                                            => task[e].pc = "done"

\* C7: no log record depends on the value of a destination identifier: the
\* identifier-bearing part of every record is empty or <REDACTED>.
C7_LogIndependentOfIdentifier ==
    \A r \in log : r.text \in {<<>>, Redacted}

HostIsSafe(h) ==
    \/ h = <<"caltopo", ".", "com">>
    \/ /\ Len(h) > 4
       /\ SubSeq(h, Len(h) - 3, Len(h)) = <<".", "caltopo", ".", "com">>

SomePatternMatches ==
    \E i \in 1..Len(allowed_patterns(env.patterns)) :
        matches_url_pattern(env.url, allowed_patterns(env.patterns)[i])

\* C8: with no allow-list, a base URL whose host is neither caltopo.com nor
\* a subdomain of it makes the class definition fail with ValueError; with
\* an allow-list, it fails unless a pattern matches; and no report goes to
\* a base URL that did not pass.
C8_UnsafeBaseUrlIsValueError ==
    /\ classState # "loading" =>
          IF allowed_patterns(env.patterns) = <<>>
          THEN ~HostIsSafe(Hostname(env.url)) => classState = "ValueError"
          ELSE ~SomePatternMatches => classState = "ValueError"
    /\ \A d \in Dest : calls[d] > 0 =>
          /\ classState = "defined" /\ BASE_URL = env.url
          /\ IF allowed_patterns(env.patterns) = <<>>
             THEN HostIsSafe(Hostname(env.url)) ELSE SomePatternMatches

(***************************************************************************)
(* Properties of the subscriber                                            *)
(***************************************************************************)
\* C9: the k-th wait since the last successful connection (k = 0 for the
\* first failure) is min(1 * 2^k, 60) seconds: 1, 2, 4, 8, 16, 32, 60, 60, ...
\* starting again at 1 after every successful connection.
C9_WaitsDoubleUpToSixty ==
    /\ \A i \in 1..Len(waits) : waits[i] = Min(Pow2(i - 1), 60)
    /\ mpc = "sleeping" => (waits # <<>> /\ Last(waits) = reconnect_interval)

C9_Witness ==
    mpc = "sleeping" /\ Len(waits) = 8 /\ Last(waits) = 60 /\ delivered > 0

\* C10: run retries for ever: it never returns or gives up, and after every
\* failure, however many came before, the backoff sleep is followed by
\* another connection attempt unless the task is cancelled.
C10_RetriesForever ==
    /\ [](mpc # "returned")
    /\ (mpc = "sleeping") ~> (mpc \in {"connecting", "cancelled"})

C10_Witness ==
    mpc = "connecting" /\ Len(waits) = 7

(***************************************************************************)
(* Properties of the subscriber's error handling                           *)
(***************************************************************************)
\* C11: cancelling the subscriber task at any suspension point (connecting,
\* subscribing, waiting for a message, inside the callback, sleeping in
\* backoff) propagates out of run: no handler swallows it, client is
\* cleared, and no connection attempt, message or callback follows.
C11_CancellationPropagatesOutOfRun ==
    /\ [](cancelledAt # "none" => mpc = "cancelled" /\ mclient = "None")
    /\ [][mpc = "cancelled" => UNCHANGED <<mpc, delivered, received, waits>>]_vars

C11_Witness ==
    /\ cancelledAt = "callback"
    /\ mpc = "cancelled"
    /\ delivered = 1

\* C12: a payload that is not valid UTF-8 JSON is dropped without the
\* callback being invoked and without ending the subscription; an exception
\* raised by the callback is contained to its message; in both cases the
\* loop goes on waiting on the same connection.
C12_MalformedMessageIsContained ==
    /\ [][(received' = received + 1 /\ delivered' = delivered)
            => (mpc = "waiting" /\ mpc' = "waiting" /\ mclient' = "client"
                /\ waits' = waits
                /\ mlog' \in {"parse_warning", "processing_error"})]_vars
    /\ [][(mpc = "callback" /\ cancelledAt' = "none")
            => (mpc' = "waiting" /\ mclient' = "client" /\ waits' = waits)]_vars

\* A malformed message was dropped, a callback raised, and a later message
\* is in its callback.
C12_Witness ==
    /\ mpc = "callback"
    /\ received = 3
    /\ delivered = 2
    /\ mlog = "processing_error"

(***************************************************************************)
(* Properties of the gateway's message handling                            *)
(***************************************************************************)
\* The step is a call of _process_message.
Arrives == stats'["messages_received"] = stats["messages_received"] + 1

\* A live position message with coordinates: one the position handler
\* takes as far as identity resolution.
LivePosition(m) ==
    /\ HasSender(m)
    /\ m.type = "position"
    /\ ~m.retain
    /\ m.payload.kind = "dict"
    /\ m.payload.coords

\* The stable id has a label: a static one, a learned one, or, for a
\* device that is not configured, its own id when the policy allows it.
LabelAvailable(hw) ==
    \/ get_node_device_id(appConfig, hw) # None
    \/ callsign_cache[hw] # None
    \/ hw \notin configured_devices(appConfig) /\ appConfig.allow_unknown_devices

Namespaces == <<node_id_cache, callsign_cache, node_id_mapping, callsign_mapping>>

\* C13: for a position message whose numeric sender has no cached mapping,
\* the computed numeric-id -> stable-id mapping is written to the cache and
\* to the durable store if and only if the label is resolved, and then the
\* reporter is called; when it is not resolved the reporter is not called
\* and no namespace changes.
C13_MappingPersistedIffLabelResolved ==
    [][(Arrives /\ HasSender(amsg') /\ amsg'.type = "position"
           /\ node_id_cache[amsg'.from] = None)
        => LET m == amsg'
               hw == convert_numeric_to_id(m.from)
           IN IF LivePosition(m) /\ LabelAvailable(hw)
              THEN /\ node_id_cache' = [node_id_cache EXCEPT ![m.from] = hw]
                   /\ node_id_mapping' = [node_id_mapping EXCEPT ![m.from] = hw]
                   /\ UNCHANGED <<callsign_cache, callsign_mapping>>
                   /\ Len(reports') = Len(reports) + 1
                   /\ reports'[Len(reports')].from = m.from
              ELSE UNCHANGED <<Namespaces, reports>>]_vars

\* The mapping of 24896776, which no nodeinfo message carries, is in the
\* store and its report is in flight.
C13_Witness ==
    /\ apc = "reporting"
    /\ node_id_mapping[24896776] = convert_numeric_to_id(24896776)
    /\ node_id_cache[24896776] = convert_numeric_to_id(24896776)
    /\ reports[Len(reports)].from = 24896776

\* C14: for every stable id that has a static configuration label, label
\* resolution returns the static label in every reachable state, whatever
\* label the cache holds from an earlier run or learns from nodeinfo
\* messages; and every report of such a device carries the static label.
C14_StaticLabelTakesPrecedence ==
    /\ \A hw \in HwIds :
          get_node_device_id(appConfig, hw) # None
          => get_or_create_callsign(appConfig, callsign_cache, hw).callsign
                = get_node_device_id(appConfig, hw)
    /\ (apc = "reporting"
          /\ get_node_device_id(appConfig, node_id_cache[reports[Len(reports)].from]) # None)
        => reports[Len(reports)].callsign
              = get_node_device_id(appConfig, node_id_cache[reports[Len(reports)].from])

\* The cache holds the learned name Alice for the id configured as
\* TEAM-LEAD, and a position of that device is reported as TEAM-LEAD.
C14_Witness ==
    /\ get_node_device_id(appConfig, ForeignId) = TeamLead
    /\ callsign_cache[ForeignId] = Alice
    /\ apc = "reporting"
    /\ node_id_cache[reports[Len(reports)].from] = ForeignId
    /\ reports[Len(reports)].callsign = TeamLead

\* A live position message of a device that is not configured and has no
\* learned label, while unknown devices are not allowed.
BlockedUnknown(m) ==
    LET hw == resolve_hardware_id(node_id_cache, m.from)
    IN /\ LivePosition(m)
       /\ ~appConfig.allow_unknown_devices
       /\ get_node_mapping(appConfig, hw) = NoMapping
       /\ callsign_cache[hw] = None

\* C15 as stated (Scenario D): a position message from an unknown device
\* while allow_unknown_devices is false makes no reporter call and leaves
\* both the errors counter and the messages_processed counter unchanged.
C15_PolicyDropLeavesProcessedUnchanged ==
    [][(Arrives /\ BlockedUnknown(amsg'))
        => /\ reports' = reports
           /\ stats'["errors"] = stats["errors"]
           /\ stats'["messages_processed"] = stats["messages_processed"]]_vars

\* C15 as the code has it: the message makes no reporter call, changes no
\* namespace and no errors or position_updates_sent counter, and is
\* counted as received and as processed.
C15_PolicyDropIsCountedAsProcessed ==
    [][(Arrives /\ BlockedUnknown(amsg'))
        => /\ UNCHANGED <<reports, apc, Namespaces>>
           /\ stats' = Bump(Bump(stats, "messages_received"), "messages_processed")]_vars

C15_Witness ==
    /\ alog = "unknown_blocked"
    /\ ~appConfig.allow_unknown_devices
    /\ stats["messages_received"] = 1
    /\ stats["messages_processed"] = 1
    /\ stats["errors"] = 0
    /\ reports = <<>>

\* C16: a position message flagged as retained never causes a reporter
\* call and never a write to a cache or a durable namespace, whatever its
\* sender, payload and coordinates.
C16_RetainedPositionIsSkipped ==
    [][(Arrives /\ amsg'.type = "position" /\ amsg'.retain)
        => UNCHANGED <<reports, apc, Namespaces>>]_vars

\* A retained position with coordinates, from a device that would be
\* reported, was skipped.
C16_Witness ==
    /\ alog = "retained"
    /\ appConfig.allow_unknown_devices
    /\ stats["messages_received"] = 1
    /\ reports = <<>>
    /\ node_id_cache = node_id_mapping

\* C17: a message with no from field is dropped before any handler runs:
\* messages_received increases by one; the other counters, both caches,
\* both durable namespaces and the reporter's calls are unchanged.
C17_NoFromIsDroppedBeforeDispatch ==
    [][(Arrives /\ ~amsg'.hasFrom)
        => /\ stats' = Bump(stats, "messages_received")
           /\ handled' = <<>>
           /\ UNCHANGED <<reports, apc, Namespaces>>]_vars

C17_Witness ==
    /\ alog = "no_from"
    /\ handled = <<>>
    /\ stats = Bump(NoStats, "messages_received")

FourTypes == {"position", "nodeinfo", "telemetry", "traceroute"}

C19_UnrecognisedTypeIsDropped ==
    [][(Arrives /\ amsg'.type \notin FourTypes)
        => /\ stats' = Bump(stats, "messages_received")
           /\ handled' = <<>>
           /\ UNCHANGED <<reports, apc, Namespaces>>]_vars

\* An unsupported type was dropped after another message was processed.
C19_Witness ==
    /\ alog = "unsupported_type"
    /\ handled = <<>>
    /\ stats["messages_received"] = 2
    /\ stats["messages_processed"] = 1

\* C20: for every numeric id n the resolved stable id changes in no step
\* other than a nodeinfo message of n: position, telemetry, traceroute and
\* dropped messages, nodeinfo messages of other senders and the return of
\* a report leave it as it is.
C20_ResolutionStableBetweenNodeinfos ==
    [][\A n \in NumericIds :
        ~(Arrives /\ HasSender(amsg') /\ amsg'.type = "nodeinfo" /\ amsg'.from = n)
        => resolve_hardware_id(node_id_cache', n)
              = resolve_hardware_id(node_id_cache, n)]_vars

\* Two positions of 24896776 were reported; the second resolution read the
\* mapping the first one persisted.
C20_Witness ==
    /\ Len(reports) = 2
    /\ reports[1].from = 24896776
    /\ reports[2].from = 24896776
    /\ node_id_cache[24896776] = convert_numeric_to_id(24896776)

(***************************************************************************)
(* Properties of the learned mappings                                      *)
(***************************************************************************)
\* The latest message is a nodeinfo message of a sender, whose payload
\* names the stable id of that sender.
NodeinfoWithId(m) ==
    /\ m.hasFrom /\ m.from # 0
    /\ m.type = "nodeinfo"
    /\ m.payload.kind = "dict"
    /\ m.payload.id # None

\* C22: after a nodeinfo message from n whose payload names the stable id
\* s, both copies of the node-id namespace map n to s whatever they held,
\* and both copies of the label namespace map s to the first available of
\* the configured device id of s, the longname and the shortname; when
\* none is available the label of s is left as it was. No other entry of
\* either namespace changes.
C22_NodeinfoLearnsIdAndLabel ==
    [][(Arrives /\ NodeinfoWithId(amsg')) =>
        LET n == amsg'.from
            s == amsg'.payload.id
            static == get_node_device_id(appConfig, s)
            first == IF static # None THEN static
                     ELSE IF amsg'.payload.longname # None THEN amsg'.payload.longname
                     ELSE IF amsg'.payload.shortname # None THEN amsg'.payload.shortname
                     ELSE None
        IN /\ node_id_cache' = [node_id_cache EXCEPT ![n] = s]
           /\ node_id_mapping' = [node_id_mapping EXCEPT ![n] = s]
           /\ IF first # None
              THEN /\ callsign_cache' = [callsign_cache EXCEPT ![s] = first]
                   /\ callsign_mapping' = [callsign_mapping EXCEPT ![s] = first]
              ELSE UNCHANGED <<callsign_cache, callsign_mapping>>]_vars

\* 123 reported a position under its computed id, then a nodeinfo message
\* of 123 replaced that id and named the new one.
C22_Witness ==
    /\ NodeinfoWithId(amsg) /\ amsg.from = 123
    /\ handled = <<"nodeinfo">>
    /\ Len(reports) > 0 /\ reports[1].callsign = convert_numeric_to_id(123)
    /\ node_id_mapping[123] = ForeignId
    /\ callsign_mapping[ForeignId] = Alice

\* The entries of the two caches that a step changes.
ChangedEntries ==
    Cardinality({n \in Senders : node_id_cache'[n] # node_id_cache[n]})
    + Cardinality({h \in HwIds : callsign_cache'[h] # callsign_cache[h]})

\* C23: a mapping is written to the durable store only when its value
\* differs from the cached one: a message issues exactly one durable write
\* for each cache entry it changes, and the same message handled a second
\* time in a row issues none and leaves both namespaces as they are.
C23_PersistWritesOnlyChanges ==
    [][Arrives =>
        /\ store_writes' = ChangedEntries
        /\ (amsg' = amsg /\ handled # <<>>)
              => (store_writes' = 0 /\ UNCHANGED Namespaces)]_vars

\* A nodeinfo message that wrote both its mappings was handled again and
\* wrote nothing.
C23_Witness ==
    /\ NodeinfoWithId(amsg) /\ amsg.payload.longname # None
    /\ handled = <<"nodeinfo">>
    /\ stats["messages_received"] = 3
    /\ stats["messages_processed"] = 3
    /\ store_writes = 0
    /\ node_id_mapping[amsg.from] = amsg.payload.id
    /\ callsign_mapping[amsg.payload.id] # None

(***************************************************************************)
(* Properties of identity resolution                                       *)
(***************************************************************************)
\* C31: resolving the stable id and the label of a position message
\* writes nothing: the step leaves both copies of the label namespace as
\* they are and changes no entry of the node-id namespace but that of a
\* sender that had none (the write of _persist_node_id_mapping); and no
\* stable id is ever stored as its own label.
C31_ResolutionWritesNothing ==
    [][(Arrives /\ HasSender(amsg') /\ amsg'.type = "position") =>
        /\ UNCHANGED <<callsign_cache, callsign_mapping>>
        /\ \A n \in Senders :
              (n # amsg'.from \/ node_id_cache[n] # None)
              => /\ node_id_cache'[n] = node_id_cache[n]
                 /\ node_id_mapping'[n] = node_id_mapping[n]
        /\ \A h \in HwIds : callsign_cache'[h] # h /\ callsign_mapping'[h] # h]_vars

\* A device that is not configured was reported under its own stable id
\* twice, and neither copy of the label namespace has an entry for it.
C31_Witness ==
    /\ apc = "reporting"
    /\ alog = "allowed_unknown"
    /\ Len(reports) = 2
    /\ reports[1].from = reports[2].from
    /\ reports[2].callsign = node_id_cache[reports[2].from]
    /\ callsign_cache[reports[2].callsign] = None
    /\ callsign_mapping[reports[2].callsign] = None

\* C32: a position message is reported under the name learned for its
\* sender's stable id whenever that id has a learned name and no
\* configured one, whatever label the device was reported under before:
\* the name a nodeinfo message stored supersedes the synthetic label with
\* no purge.
C32_LearnedNameSupersedesSyntheticLabel ==
    apc = "reporting" =>
        LET r == reports[Len(reports)]
            h == node_id_cache[r.from]
        IN (get_node_device_id(appConfig, h) = None /\ callsign_cache[h] # None)
           => r.callsign = callsign_cache[h]

\* A sender was reported under its own stable id, a nodeinfo message then
\* gave that id the longname Alice, and the next position of the sender is
\* reported as Alice.
C32_Witness ==
    /\ apc = "reporting"
    /\ Len(reports) = 2
    /\ reports[1].from = reports[2].from
    /\ reports[1].callsign = convert_numeric_to_id(reports[1].from)
    /\ node_id_cache[reports[2].from] = reports[1].callsign
    /\ reports[2].callsign = Alice
    /\ stats["messages_received"] = 3

(***************************************************************************)
(* Properties of the caches as mirrors of the store                        *)
(***************************************************************************)
\* C33: between two messages each cache holds exactly the entries of its
\* durable namespace.
C33_CachesMirrorTheStore ==
    apc = "idle" =>
        /\ node_id_cache = node_id_mapping
        /\ callsign_cache = callsign_mapping

\* On top of the mappings of an earlier run, a position message stored
\* the id of 24896776 and a nodeinfo message replaced the label of 123's
\* id by its shortname.
C33_Witness ==
    /\ apc = "idle"
    /\ stats["messages_processed"] = 2
    /\ node_id_mapping[123] = ForeignId
    /\ node_id_mapping[24896776] = convert_numeric_to_id(24896776)
    /\ callsign_mapping[ForeignId] = ShortName
    /\ node_id_cache = node_id_mapping /\ callsign_cache = callsign_mapping

\* C39: a durable write that raises leaves no entry in a cache that its
\* namespace lacks, so that the next persist of the mapping is not
\* skipped as unchanged.
C39_CacheKeepsNothingTheStoreLacks ==
    /\ \A n \in Senders : node_id_cache[n] # None => node_id_mapping[n] = node_id_cache[n]
    /\ \A h \in HwIds : callsign_cache[h] # None => callsign_mapping[h] = callsign_cache[h]

(***************************************************************************)
(* Properties of the counters                                              *)
(***************************************************************************)
\* The message goes to a type-specific handler, which raises on its
\* payload.
HandlerRaises(m) ==
    /\ HasSender(m)
    /\ Route(m) \in {"position", "nodeinfo", "telemetry", "traceroute"}
    /\ m.payload.kind = "malformed"
    /\ ~(Route(m) = "position" /\ IsRetained(m))

\* C34: when the handler of a message raises, the exception stays in
\* _process_message: errors goes up by one, messages_received by one,
\* messages_processed and position_updates_sent stay, nothing is reported
\* or stored, and the gateway is ready for the next message.
C34_HandlerFaultIsCountedOnce ==
    [][(Arrives /\ HandlerRaises(amsg')) =>
        /\ stats' = [stats EXCEPT !["messages_received"] = @ + 1, !["errors"] = @ + 1]
        /\ apc' = "idle"
        /\ UNCHANGED <<Namespaces, reports>>]_vars

\* A handler raised on one message, and the nodeinfo message after it was
\* processed and its mapping learned.
C34_Witness ==
    /\ stats["errors"] = 1
    /\ stats["messages_received"] = 2
    /\ stats["messages_processed"] = 1
    /\ reports = <<>>
    /\ apc = "idle"
    /\ alog = "nodeinfo"
    /\ NodeinfoWithId(amsg)
    /\ node_id_mapping[amsg.from] = amsg.payload.id

\* A position message that the handler ends before the reporter: it is
\* retained, has no payload or no coordinates, or its device has no label
\* (blocked by the policy, or configured and not yet named).
EndsBeforeReporter(m) ==
    /\ HasSender(m) /\ m.type = "position"
    /\ \/ m.retain
       \/ m.payload.kind = "none"
       \/ m.payload.kind = "dict" /\ ~m.payload.coords
       \/ /\ m.payload.kind = "dict"
          /\ ~LabelAvailable(resolve_hardware_id(node_id_cache, m.from))

SentAndErrors == <<stats["position_updates_sent"], stats["errors"]>>

\* C35: when the reporter returns for a position message, exactly one of
\* position_updates_sent (it returned true) and errors (it returned false)
\* goes up, by one; the step that hands the message to the reporter, and
\* a position message that ends before the reporter, change neither.
C35_EachReportCountedOnce ==
    [][/\ \A success \in BOOLEAN :
             ReportReturns(success) =>
                SentAndErrors' = IF success
                                 THEN <<SentAndErrors[1] + 1, SentAndErrors[2]>>
                                 ELSE <<SentAndErrors[1], SentAndErrors[2] + 1>>
       /\ (apc = "reporting" /\ apc' = "idle") =>
             \/ SentAndErrors' = <<SentAndErrors[1] + 1, SentAndErrors[2]>>
             \/ SentAndErrors' = <<SentAndErrors[1], SentAndErrors[2] + 1>>
       /\ (Arrives /\ (apc' = "reporting" \/ EndsBeforeReporter(amsg')))
             => UNCHANGED SentAndErrors
       /\ (Arrives /\ EndsBeforeReporter(amsg')) => UNCHANGED reports]_vars

\* Two reports were counted, one as sent and one as an error, and a third
\* position, of a blocked device, was counted as neither.
C35_Witness ==
    /\ stats["position_updates_sent"] = 1
    /\ stats["errors"] = 1
    /\ stats["messages_received"] = 3
    /\ Len(reports) = 2
    /\ apc = "idle"
    /\ alog = "unknown_blocked"

(***************************************************************************)
(* Properties of the destinations of a report                              *)
(***************************************************************************)
\* C38: with the group destination configured, the group delivery of a
\* report goes to the group the node table gives the reported device, or
\* to the global group when it gives none; it goes to the group of no
\* other node; and the connect_key delivery is made as well when a
\* connect_key is configured.
C38_ReportedToOwnGroupOrGlobal ==
    (apc = "reporting" /\ has_group(config)) =>
        LET r == reports[Len(reports)]
            own == get_node_mapping(appConfig, node_id_cache[r.from])
            t == Deliveries(config, r.group)
        IN /\ t["group"].pc = "ready"
           /\ t["group"].ident = IF own.present /\ own.group # None
                                 THEN own.group ELSE config.group
           /\ \A e \in appConfig.nodes :
                 (e.group # None /\ t["group"].ident = e.group)
                 => (own.present /\ own.group = e.group) \/ e.group = config.group
           /\ has_connect_key(config) =>
                 /\ t["connect_key"].pc = "ready"
                 /\ t["connect_key"].ident = config.connect_key

\* A device with a group of its own was reported to it, and after it a
\* device the table does not name to the global group; both reports go to
\* the connect_key as well.
C38_Witness ==
    /\ apc = "reporting"
    /\ has_group(config) /\ has_connect_key(config)
    /\ Len(reports) = 2
    /\ get_node_mapping(appConfig, node_id_cache[reports[1].from]).group = reports[1].group
    /\ reports[1].group # config.group
    /\ ~get_node_mapping(appConfig, node_id_cache[reports[2].from]).present
    /\ reports[2].group = config.group

(***************************************************************************)
(* Properties of the derived stable id                                     *)
(***************************************************************************)
LowerHex == {HexDigits[i] : i \in 1..16}

\* The value of a hexadecimal digit, and of four of them.
DigitValue(c) == CHOOSE i \in 0..15 : HexDigits[i + 1] = c
Value4(s) == ((DigitValue(s[1]) * 16 + DigitValue(s[2])) * 16
              + DigitValue(s[3])) * 16 + DigitValue(s[4])

C29_StoreFaultIsRecovered ==
    store_fault # "none" =>
        /\ init_result = "True"
        /\ db_file = FreshFile
        /\ \A i \in 1..Len(handles) :
              IF i > Len(handles) - 2 THEN handles[i].ns = "empty"
              ELSE handles[i].state = "closed"
        /\ node_id_mapping = StoredIds("empty") /\ node_id_cache = StoredIds("empty")
        /\ callsign_mapping = StoredNames("empty")
        /\ callsign_cache = StoredNames("empty")

\* The handles the gateway holds: the two that initialize bound last.
CurrentHandles == {i \in 1..Len(handles) : i > Len(handles) - 2}

\* C37: when stop() has run at the end of start(), the shared HTTP client
\* and both handles of the durable store are closed.
C37_StopReleasesEveryResource ==
    (lifecycle.start = "stopped" /\ init_result = "True") =>
        /\ lifecycle.http_client = "closed"
        /\ \A i \in CurrentHandles : handles[i].state = "closed"

\* The part of C37 on termination: once the stop event is set, start()
\* gets to the end of stop().
C37_StopEventLeadsToStopped ==
    lifecycle.stop_event ~> (lifecycle.start = "stopped")

(***************************************************************************)
(* Properties of the order of handling                                     *)
(***************************************************************************)
Increasing(q) == \A i, j \in 1..Len(q) : i < j => q[i] < q[j]

\* C26: the messages are handed to _process_message in the order of their
\* arrival, none skipped or overtaken, and send_position_update is called
\* in that order too: the k-th message handled is the k-th that arrived,
\* the queued ones follow in order, and the calls of the reporter belong
\* to messages of increasing arrival number, each to the position message
\* of its sender.
C26_HandledInArrivalOrder ==
    /\ order = [i \in 1..Len(order) |-> i]
    /\ \A i \in 1..Len(inbox) : inbox[i].seq = Len(order) + i
    /\ arrived = Len(order) + Len(inbox)
    /\ Len(reportOrder) = Len(reports)
    /\ Increasing(reportOrder)
    /\ \A i \in 1..Len(reportOrder) : reportOrder[i] \in 1..Len(order)

\* Three messages arrived before the first was taken; all were handled
\* and the first and the third were reported.
C26_Witness ==
    /\ arrived = 3 /\ order = <<1, 2, 3>>
    /\ reportOrder = <<1, 3>>
    /\ reports[1].from # reports[2].from
    /\ apc = "idle"

Ended(d) == task[d].pc \in {"none", "done", "cancelled"}

\* C28: send_position_update is over, by a return or by the cancellation
\* leaving it, only when every delivery task it started has ended (with
\* success, with failure or cancelled), and no delivery does anything
\* after that.
C28_ReturnsAfterEveryDeliveryEnded ==
    /\ [](rpc \in {"returned", "cancelled"} => \A d \in Dest : Ended(d))
    /\ [][(rpc \in {"returned", "cancelled"})
            => (task' = task /\ calls' = calls)]_vars

\* The call returned after one delivery succeeded at once and the other
\* used all four attempts.
C28_Witness ==
    /\ rpc = "returned" /\ rresult
    /\ task["connect_key"].pc = "done" /\ calls["connect_key"] = 1
    /\ task["group"].pc = "done" /\ calls["group"] = 4

\* C30: when the cancellation reaches a report in flight, every delivery
\* that has not ended ends cancelled, whether it waits for the HTTP answer,
\* for the backoff or for its start, and the ended ones keep their
\* outcome; from then on no HTTP call is issued, and the call does not
\* return a result: the cancellation leaves it.
C30_CancellationEndsTheDelivery ==
    /\ [][(rpc = "gather" /\ rpc' = "cancelling") =>
            \A d \in Dest :
               /\ task[d].pc \in {"ready", "get", "sleep"} => task'[d].pc = "cancelled"
               /\ task[d].pc \in {"none", "done"} => task'[d] = task[d]]_vars
    /\ [][(rpc \in {"cancelling", "cancelled"}) =>
            /\ calls' = calls
            /\ rresult' = rresult
            /\ rpc' \in {"cancelling", "cancelled"}]_vars

\* The cancellation came while one delivery was in its second attempt or
\* in the backoff after it, the other having ended.
C30_Witness ==
    /\ rpc = "cancelled"
    /\ task["connect_key"].pc = "cancelled" /\ calls["connect_key"] = 2
    /\ task["group"].pc = "done"

\* The other destination.
Other(d) == IF d = "group" THEN "connect_key" ELSE "group"

\* C36: the two deliveries of a report are independent. While gather
\* waits, a step of one delivery leaves the other's task and its count of
\* calls as they are; and a delivery that has ended made a number of calls
\* and has a result that its own identifier and answers fix: none and
\* false for an invalid identifier, else one call more than its retries,
\* at most 4, exactly 4 when its last answer was a retryable one, and true
\* exactly when its last answer was a 200.
C36_DeliveriesAreIndependent ==
    [][/\ (rpc = "gather" /\ rpc' = "gather") =>
             \A d \in Dest :
                task'[d] # task[d] =>
                    task'[Other(d)] = task[Other(d)] /\ calls'[Other(d)] = calls[Other(d)]
       /\ \A d \in Dest :
             (rpc' = "gather" /\ task'[d].pc = "done") =>
                IF ~is_valid_caltopo_identifier(task'[d].ident)
                THEN calls'[d] = 0 /\ ~task'[d].result
                ELSE /\ calls'[d] = task'[d].attempt + 1
                     /\ calls'[d] <= max_retries + 1
                     /\ Classify(lastResp'[d]) = "retry" => calls'[d] = max_retries + 1
                     /\ task'[d].result = (Classify(lastResp'[d]) = "ok")]_vars

\* The group delivery ended at its first call with a fatal status while
\* the connect_key delivery went through three retries and succeeded at
\* its fourth call.
C36_Witness ==
    /\ rpc = "returned" /\ rresult
    /\ task["group"].pc = "done" /\ ~task["group"].result
    /\ calls["group"] = 1 /\ Classify(lastResp["group"]) = "fail"
    /\ task["connect_key"].pc = "done" /\ task["connect_key"].result
    /\ calls["connect_key"] = 4

(***************************************************************************)
(* Properties of the callback-based client                                 *)
(***************************************************************************)
\* C40: reconnection of the callback-based client is bounded.
\* _attempt_reconnect entered at the limit of 10 attempts returns with no
\* wait and no reconnect; reconnect_attempts never exceeds 10; every wait
\* is min(2^(attempt-1), 60) seconds for the attempt it belongs to; and
\* when every reconnect of a disconnection raised, the retry has ended
\* with reconnect_attempts at 10.
C40_LegacyReconnectIsBounded ==
    [][/\ (legacy.pc = "attempt" /\ legacy.reconnect_attempts >= max_reconnect_attempts)
             => legacy' = [legacy EXCEPT !.pc = "idle"]
       /\ legacy'.reconnect_attempts <= max_reconnect_attempts
       /\ Len(legacy'.waits) <= max_reconnect_attempts
       /\ \A i \in 1..Len(legacy'.waits) :
             /\ legacy'.waits[i].delay = Min(Pow2(legacy'.waits[i].attempt - 1), 60)
             /\ legacy'.waits[i].attempt \in 1..max_reconnect_attempts
             /\ i > 1 => legacy'.waits[i].attempt = legacy'.waits[i-1].attempt + 1
       /\ legacy'.pc = "sleeping"
             => /\ legacy'.reconnect_attempts = legacy.reconnect_attempts + 1
                /\ Last(legacy'.waits).attempt = legacy'.reconnect_attempts
       /\ (legacy.pc # "idle" /\ legacy'.pc = "idle" /\ legacy'.all_failed)
             => legacy'.reconnect_attempts = max_reconnect_attempts]_vars

\* Every reconnect of the first disconnection raised: the client waited
\* 1, 2, 4, 8, 16, 32 and four times 60 seconds, called reconnect ten
\* times and gave up with reconnect_attempts at 10.
C40_Witness ==
    /\ legacy.pc = "idle"
    /\ legacy.all_failed
    /\ legacy.reconnect_attempts = 10
    /\ legacy.reconnects = 10
    /\ Len(legacy.waits) = 10
    /\ legacy.waits[6].delay = 32
    /\ legacy.waits[7].delay = 60
    /\ legacy.waits[10].delay = 60

(***************************************************************************)
(* Properties of PersistentDict                                            *)
(***************************************************************************)
\* C24 as stated: once store[k] = v was executed for a value v that
\* json.dumps accepts, every read of k returns a value equal to v, across
\* writes to other keys and across close and reopen, until k is written
\* again or deleted.
C24_ReadReturnsTheValueWritten ==
    (dict_out.op = "get" /\ conn = "open"
        /\ assigned[dict_out.key].value # Unset)
        => dict_out.outcome = assigned[dict_out.key].value

\* The values that JSON itself has: strings, numbers, arrays and objects
\* with string keys.
JsonOwn(v) ==
    /\ v.t \in {"str", "int", "list", "dict"}
    /\ v.t = "dict" => \A i \in 1..Len(v.items) : i % 2 = 1 => v.items[i].t = "str"

\* C24, amended: the same for a value that JSON itself has, stored
\* through a PersistentDict opened with autocommit.
C24_JsonValueWrittenWithAutocommitIsReadBack ==
    (dict_out.op = "get" /\ conn = "open"
        /\ assigned[dict_out.key].value # Unset
        /\ JsonOwn(assigned[dict_out.key].value)
        /\ assigned[dict_out.key].autocommit)
        => dict_out.outcome = assigned[dict_out.key].value

\* A list stored with autocommit is read back through a later connection
\* (one opened without autocommit), after a write to the other key.
C24_Witness ==
    /\ conn = "open" /\ ~autocommit
    /\ dict_out = Op("get", "key1", PyList(<<PyInt("1"), PyStr("v")>>))
    /\ assigned["key1"] = [value |-> PyList(<<PyInt("1"), PyStr("v")>>),
                            autocommit |-> TRUE]
    /\ assigned["key2"].value = PyDict(<<PyStr("a"), PyInt("1")>>)

\* The text of the row is not JSON.
Undecodable(text) == text # NoRow /\ loads(text).t = "JSONDecodeError"

\* C25: a read of a key whose row holds a text that is not JSON ends in
\* KeyError, as the read of a key that has no row does, and changes
\* neither the rows nor the connection.
C25_UndecodableRowReadsAsMissing ==
    [][\A k \in DictKeys :
          (dict_out' = Op("get", k, dict_out'.outcome) /\ conn = "open"
              /\ (txn[k] = NoRow \/ Undecodable(txn[k])))
          => /\ dict_out'.outcome = Ends("KeyError")
             /\ UNCHANGED <<table, txn, conn, assigned>>]_vars

\* A row written by another connection with a text cut short was read.
C25_Witness ==
    /\ conn = "open"
    /\ dict_out = Op("get", "key1", Ends("KeyError"))
    /\ txn["key1"] = <<"{", "invalid">>
    /\ table["key1"] = <<"{", "invalid">>

====
